---- MODULE Spec2Model ----
(***************************************************************************)
(* A model of the glamour ANSI renderer's Kitty extensions: the style      *)
(* cascade (ansi/style.go), the OSC 66 text-sizing codec and capability    *)
(* probe (ansi/kitty_text_sizing.go), heading finalisation                 *)
(* (ansi/heading.go) and the graphics placeholder codec                    *)
(* (ansi/kitty_image.go, ansi/image.go).                                   *)
(*                                                                         *)
(* Go strings are modelled as sequences of byte values (code points for    *)
(* the placeholder grid).  A Go pointer field (to a bool, uint or string)   *)
(* is a sequence of length 0 (nil) or 1 (pointing at a value).             *)
(***************************************************************************)
EXTENDS Integers, Sequences, FiniteSets, TLC

VARIABLES
    pc,          \* which operation of the component under study has run
    parent,      \* cascadeStylePrimitive: the parent argument
    child,       \* cascadeStylePrimitive: the child argument
    toBlock,     \* cascadeStylePrimitive: the toBlock argument
    resolved,    \* cascadeStylePrimitive(parent, child, toBlock)
    resolved2,   \* cascadeStylePrimitive(resolved, child, toBlock)
    rules,       \* buildKittyMetadata: the rules argument
    meta,        \* buildKittyMetadata(rules)
    before,      \* the output written before a marker
    payload,     \* the text a marker wraps
    after,       \* the output written after a marker
    composed,    \* the composed output, the argument of DecodeKittyTextSizeMarkers
    decoded,     \* DecodeKittyTextSizeMarkers(composed)
    isTerminal,  \* term.IsTerminal(stdout)
    termMode,    \* the mode of the terminal on stdin
    oldState,    \* DetectKittyTextSizing: the state makeRaw saved, or nil
    col1,        \* DetectKittyTextSizing: the column of the first report
    col2,        \* DetectKittyTextSizing: the column of the second report
    col3,        \* DetectKittyTextSizing: the column of the third report
    capability,  \* DetectKittyTextSizing: the capability returned
    probeErr,    \* DetectKittyTextSizing: the error returned, "nil" for none
    timeout,     \* DetectKittyTextSizing: the timeout the caller supplied, in ticks
    waited,      \* readCPR: the ticks the current read has waited
    imageID,     \* buildKittyPlaceholderGrid: the imageID argument
    cols,        \* buildKittyPlaceholderGrid: the cols argument
    rows,        \* buildKittyPlaceholderGrid: the rows argument
    grid,        \* buildKittyPlaceholderGrid(imageID, cols, rows)
    blockStack,  \* ctx.blockStack: the entries, the root first, each a Block and a Style
    w,           \* the output written so far
    imageText,   \* ctx.options.Styles.ImageText
    imageStyle,  \* ctx.options.Styles.Image
    kittyImageConfig, \* the KittyImageConfig of the renderer, or nil
    image,       \* the image node: Text, BaseURL, URL, TextOnly
    walkStatus,  \* what KittyImageRenderer.renderImage returned, "" before it ran
    renderErr,   \* whether the element renderer returned an error
    heading,     \* the heading element: Level, First
    styles,      \* ctx.options.Styles: Heading and H[1..6]
    kittyTextSizingEnabled, \* the global scaling flag
    entryDepth,  \* the depth of the block stack when the heading was entered
    children,    \* how many inline children of the heading were rendered
    writerFails, \* whether writes to the output fail
    finishErr,   \* whether HeadingElement.Finish returned an error
    element,     \* the BaseElement rendered: Token, Prefix, Style
    baseErr,     \* whether BaseElement.Render returned an error
    NumLinks,    \* the package-level link counter
    kittyTextSizingMutex, \* the reader/writer lock of the flag: writer, readers
    render,      \* the concurrent render calls: pc, LinkNumbers, links, seen, tmp, tokens
    setter,      \* the concurrent SetKittyTextSizingEnabled call: pc, enabled
    calls,       \* how many calls of DetectAndEnableKittyTextSizing have started
    answering,   \* whether the terminal answers the requests of the current call
    outstanding, \* whether a request is sent that the terminal has yet to answer
    stdin,       \* the reports written by the terminal and not yet read, as columns
    abandoned,   \* how many readers of timed-out readCPR calls still block in Read
    cprs,        \* the columns the current call's own readers have received
    answers,     \* the columns the terminal has reported in the current call
    taken,       \* how many reports of the current call an abandoned reader consumed
    timedOut,    \* whether an earlier call ended with a timeout
    detected     \* what the last call returned: cap, err

cascadeVars == <<parent, child, toBlock, resolved, resolved2>>
metaVars == <<rules, meta>>
markerVars == <<before, payload, after, composed, decoded>>
probeVars ==
    <<isTerminal, termMode, oldState, col1, col2, col3, capability, probeErr,
      timeout, waited>>
gridVars == <<imageID, cols, rows, grid>>
ctxVars == <<blockStack, w>>
imageVars == <<imageText, imageStyle, kittyImageConfig, image, walkStatus, renderErr>>
flagVars == <<kittyTextSizingEnabled>>
headingVars == <<heading, styles, entryDepth, children, writerFails, finishErr>>
baseVars == <<element, baseErr>>
linksVars == <<NumLinks, kittyTextSizingMutex, render, setter>>
callsVars ==
    <<calls, answering, outstanding, stdin, abandoned, cprs, answers, taken, timedOut,
      detected>>
vars == <<pc, cascadeVars, metaVars, markerVars, probeVars, gridVars, ctxVars, imageVars, flagVars, headingVars, baseVars, linksVars, callsVars>>

\* the variables of the other components, which an operation leaves alone
othersOfCascade == <<metaVars, markerVars, probeVars, gridVars, ctxVars, imageVars, flagVars, headingVars, baseVars, linksVars, callsVars>>
othersOfMeta == <<cascadeVars, markerVars, probeVars, gridVars, ctxVars, imageVars, flagVars, headingVars, baseVars, linksVars, callsVars>>
othersOfMarker == <<cascadeVars, metaVars, probeVars, gridVars, ctxVars, imageVars, flagVars, headingVars, baseVars, linksVars, callsVars>>
othersOfProbe == <<cascadeVars, metaVars, markerVars, gridVars, ctxVars, imageVars, flagVars, headingVars, baseVars, linksVars, callsVars>>
othersOfGrid == <<cascadeVars, metaVars, markerVars, probeVars, ctxVars, imageVars, flagVars, headingVars, baseVars, linksVars, callsVars>>
othersOfImage == <<cascadeVars, metaVars, markerVars, probeVars, gridVars, flagVars, headingVars, baseVars, linksVars, callsVars>>
othersOfHeading == <<cascadeVars, metaVars, markerVars, probeVars, gridVars, imageVars, baseVars, linksVars, callsVars>>
othersOfBase == <<cascadeVars, metaVars, markerVars, probeVars, gridVars, imageVars, flagVars, headingVars, linksVars, callsVars>>
othersOfLinks == <<cascadeVars, metaVars, markerVars, probeVars, gridVars, ctxVars, imageVars, headingVars, baseVars, callsVars>>
othersOfCalls == <<cascadeVars, metaVars, markerVars, probeVars, gridVars, ctxVars, imageVars, headingVars, baseVars, linksVars>>

(***************************************************************************)
(* Bounds of the model.                                                    *)
(***************************************************************************)
\* the number of fields the configuration sets, over parent and child together
MaxSet == 2
\* how many values above its documented range a scaling parameter is tried with
UintOver == 2
\* the number of pieces a marker's payload is made of
MaxPieces == 2
\* the longest timeout a caller supplies, in ticks
MaxTimeout == 2

\* the largest column a cursor position report carries
MaxCol == 9

\* the largest number of columns and of rows of a placeholder grid
MaxGrid == 3

\* the most inline children a heading has
MaxChildren == 2

\* the most links one render call renders
MaxLinks == 2

\* the most calls of the probe in one run of the program
MaxCalls == 3

(***************************************************************************)
(* Strings and pointers.                                                   *)
(***************************************************************************)
Nil == <<>>
Ptr(v) == <<v>>
Deref(p) == p[1]
EmptyString == <<>>

RECURSIVE Concat(_)
\* Concat(<<s1, ..., sn>>) is s1 + ... + sn
Concat(ss) == IF ss = <<>> THEN <<>> ELSE Head(ss) \o Concat(Tail(ss))

(***************************************************************************)
(* ansi/style.go: StylePrimitive and the cascade.                          *)
(***************************************************************************)
\* the string fields of StylePrimitive that frame a block or a token
FramingFields == {"BlockPrefix", "BlockSuffix", "Prefix", "Suffix"}
BoolFields == {"Underline", "Bold", "Upper", "Lower", "Title", "Italic",
               "CrossedOut", "Faint", "Conceal", "Overlined", "Inverse", "Blink"}
ColorFields == {"Color", "BackgroundColor"}
KittyFields == {"KittyScale", "KittyWidth", "KittyNumerator",
                "KittyDenominator", "KittyVAlign", "KittyHAlign"}
StringFields == FramingFields \cup {"Format"}
PointerFields == BoolFields \cup ColorFields \cup KittyFields \cup {"PrefixColor"}

\* the zero value of the struct: every string empty, every pointer nil
ZeroStylePrimitive ==
    [BlockPrefix |-> EmptyString, BlockSuffix |-> EmptyString,
     Prefix |-> EmptyString, PrefixColor |-> Nil, Suffix |-> EmptyString,
     Color |-> Nil, BackgroundColor |-> Nil,
     Underline |-> Nil, Bold |-> Nil, Upper |-> Nil, Lower |-> Nil,
     Title |-> Nil, Italic |-> Nil, CrossedOut |-> Nil, Faint |-> Nil,
     Conceal |-> Nil, Overlined |-> Nil, Inverse |-> Nil, Blink |-> Nil,
     Format |-> EmptyString,
     KittyScale |-> Nil, KittyWidth |-> Nil, KittyNumerator |-> Nil,
     KittyDenominator |-> Nil, KittyVAlign |-> Nil, KittyHAlign |-> Nil]

\* style.go: the zero StyleBlock
ZeroStyleBlock == [StylePrimitive |-> ZeroStylePrimitive, Indent |-> Nil, Margin |-> Nil]

\* style.go:170-191: the pointer fields are first taken from the parent
InheritPointers(p, s) ==
    [s EXCEPT !.Color = p.Color, !.BackgroundColor = p.BackgroundColor,
              !.Underline = p.Underline, !.Bold = p.Bold, !.Upper = p.Upper,
              !.Title = p.Title, !.Lower = p.Lower, !.Italic = p.Italic,
              !.CrossedOut = p.CrossedOut, !.Faint = p.Faint,
              !.Conceal = p.Conceal, !.Overlined = p.Overlined,
              !.Inverse = p.Inverse, !.Blink = p.Blink,
              !.KittyScale = p.KittyScale, !.KittyWidth = p.KittyWidth,
              !.KittyNumerator = p.KittyNumerator,
              !.KittyDenominator = p.KittyDenominator,
              !.KittyVAlign = p.KittyVAlign, !.KittyHAlign = p.KittyHAlign]

\* style.go:193-198: the framing strings are taken from the parent for a block
InheritFraming(p, s, tb) ==
    IF tb
    THEN [s EXCEPT !.BlockPrefix = p.BlockPrefix, !.BlockSuffix = p.BlockSuffix,
                   !.Prefix = p.Prefix, !.Suffix = p.Suffix]
    ELSE s

OrElse(c, cur) == IF c # Nil THEN c ELSE cur
OrElseStr(c, cur) == IF c # EmptyString THEN c ELSE cur

\* style.go:200-276: whatever the child sets overrides
ChildOverrides(c, s) ==
    [s EXCEPT !.Color = OrElse(c.Color, @),
              !.BackgroundColor = OrElse(c.BackgroundColor, @),
              !.Underline = OrElse(c.Underline, @),
              !.Bold = OrElse(c.Bold, @),
              !.Upper = OrElse(c.Upper, @),
              !.Lower = OrElse(c.Lower, @),
              !.Title = OrElse(c.Title, @),
              !.Italic = OrElse(c.Italic, @),
              !.CrossedOut = OrElse(c.CrossedOut, @),
              !.Faint = OrElse(c.Faint, @),
              !.Conceal = OrElse(c.Conceal, @),
              !.Overlined = OrElse(c.Overlined, @),
              !.Inverse = OrElse(c.Inverse, @),
              !.Blink = OrElse(c.Blink, @),
              !.BlockPrefix = OrElseStr(c.BlockPrefix, @),
              !.BlockSuffix = OrElseStr(c.BlockSuffix, @),
              !.Prefix = OrElseStr(c.Prefix, @),
              !.Suffix = OrElseStr(c.Suffix, @),
              !.Format = OrElseStr(c.Format, @),
              !.KittyScale = OrElse(c.KittyScale, @),
              !.KittyWidth = OrElse(c.KittyWidth, @),
              !.KittyNumerator = OrElse(c.KittyNumerator, @),
              !.KittyDenominator = OrElse(c.KittyDenominator, @),
              !.KittyVAlign = OrElse(c.KittyVAlign, @),
              !.KittyHAlign = OrElse(c.KittyHAlign, @)]

\* a cascade that forgets that an explicit false or 0 is a set value
TruthyOverrides(c, s) ==
    LET PickBool(v, cur) == IF v # Nil /\ Deref(v) THEN v ELSE cur
        PickUint(v, cur) == IF v # Nil /\ Deref(v) # 0 THEN v ELSE cur
    IN  [ChildOverrides(c, s) EXCEPT
              !.Bold = PickBool(c.Bold, s.Bold),
              !.Conceal = PickBool(c.Conceal, s.Conceal),
              !.KittyWidth = PickUint(c.KittyWidth, s.KittyWidth),
              !.KittyVAlign = PickUint(c.KittyVAlign, s.KittyVAlign)]

cascadeTruthy(p, c, tb) ==
    TruthyOverrides(c, InheritFraming(p, InheritPointers(p, c), tb))

\* a cascade that inherits the framing strings whatever toBlock is
cascadeAlwaysFraming(p, c, tb) ==
    ChildOverrides(c, InheritFraming(p, InheritPointers(p, c), TRUE))

\* a cascade whose Upper and Lower inheritance lines are exchanged
cascadeSwapped(p, c, tb) ==
    LET s == InheritPointers(p, c)
    IN  ChildOverrides(c, InheritFraming(p,
            [s EXCEPT !.Upper = p.Lower, !.Lower = p.Upper], tb))

\* style.go:167-279
cascadeStylePrimitive(p, c, tb) ==
    ChildOverrides(c, InheritFraming(p, InheritPointers(p, c), tb))

(***************************************************************************)
(* The styles a configuration can hold: the zero value with some fields    *)
(* set.  Booleans are set to true or false, unsigned fields to 0 or more,  *)
(* strings to a non-empty text.                                            *)
(***************************************************************************)
FieldValues(f) ==
    IF f \in BoolFields THEN {Ptr(TRUE), Ptr(FALSE)}
    ELSE IF f \in KittyFields THEN {Ptr(0), Ptr(3)}
    ELSE IF f \in ColorFields \cup {"PrefixColor"} THEN {Ptr(<<49>>), Ptr(<<50>>)}
    ELSE {<<120>>, <<121>>}

Assignments ==
    UNION {{[field |-> f, who |-> o, value |-> v] :
                o \in {"parent", "child"}, v \in FieldValues(f)} :
            f \in StringFields \cup PointerFields}

Assign(pair, a) ==
    IF a.who = "parent"
    THEN [pair EXCEPT !.parent = [@ EXCEPT ![a.field] = a.value]]
    ELSE [pair EXCEPT !.child = [@ EXCEPT ![a.field] = a.value]]

RECURSIVE StylePairs(_)
StylePairs(n) ==
    IF n = 0
    THEN {[parent |-> ZeroStylePrimitive, child |-> ZeroStylePrimitive]}
    ELSE LET prev == StylePairs(n - 1)
         IN  prev \cup {Assign(pr, a) : pr \in prev, a \in Assignments}

(***************************************************************************)
(* The values the variables of a component hold while another component    *)
(* is the one under study.                                                 *)
(***************************************************************************)
IdleCascade ==
    /\ parent = ZeroStylePrimitive /\ child = ZeroStylePrimitive
    /\ toBlock = FALSE
    /\ resolved = ZeroStylePrimitive /\ resolved2 = ZeroStylePrimitive

IdleMeta == rules = ZeroStylePrimitive /\ meta = EmptyString

IdleMarker ==
    /\ before = EmptyString /\ payload = EmptyString /\ after = EmptyString
    /\ composed = EmptyString /\ decoded = EmptyString

IdleProbe ==
    /\ isTerminal = FALSE
    /\ termMode = [echo |-> TRUE, icanon |-> TRUE, isig |-> TRUE]
    /\ oldState = Nil
    /\ col1 = 0 /\ col2 = 0 /\ col3 = 0
    /\ capability = "KittyTextSizingNone" /\ probeErr = "nil"
    /\ timeout = 0 /\ waited = 0

IdleGrid == imageID = 0 /\ cols = 0 /\ rows = 0 /\ grid = EmptyString

IdleCtx == blockStack = <<>> /\ w = EmptyString

IdleImage ==
    /\ imageText = ZeroStylePrimitive /\ imageStyle = ZeroStylePrimitive
    /\ kittyImageConfig = Nil
    /\ image = [Text |-> EmptyString, BaseURL |-> EmptyString,
                URL |-> EmptyString, TextOnly |-> FALSE]
    /\ walkStatus = "" /\ renderErr = FALSE

\* kitty_text_sizing.go:21
IdleFlag == kittyTextSizingEnabled = FALSE

IdleHeading ==
    /\ heading = [Level |-> 1, First |-> TRUE]
    /\ styles = [Heading |-> ZeroStyleBlock, H |-> [l \in 1..6 |-> ZeroStyleBlock]]
    /\ entryDepth = 0 /\ children = 0 /\ writerFails = FALSE /\ finishErr = FALSE

IdleBase ==
    /\ element = [Token |-> EmptyString, Prefix |-> EmptyString,
                  Style |-> ZeroStylePrimitive]
    /\ baseErr = FALSE

IdleLinks ==
    /\ NumLinks = 0
    /\ kittyTextSizingMutex = [writer |-> FALSE, readers |-> 0]
    /\ render = <<>>
    /\ setter = [pc |-> "done", enabled |-> FALSE]

IdleCalls ==
    /\ calls = 0 /\ answering = FALSE /\ outstanding = FALSE
    /\ stdin = <<>> /\ abandoned = 0
    /\ cprs = <<>> /\ answers = <<>> /\ taken = 0 /\ timedOut = FALSE
    /\ detected = [cap |-> "KittyTextSizingNone", err |-> "nil"]

IdleButCascade ==
    IdleMeta /\ IdleMarker /\ IdleProbe /\ IdleGrid /\ IdleCtx /\ IdleImage /\ IdleFlag /\ IdleHeading /\ IdleBase /\ IdleLinks /\ IdleCalls
IdleButMeta ==
    IdleCascade /\ IdleMarker /\ IdleProbe /\ IdleGrid /\ IdleCtx /\ IdleImage /\ IdleFlag /\ IdleHeading /\ IdleBase /\ IdleLinks /\ IdleCalls
IdleButMarker ==
    IdleCascade /\ IdleMeta /\ IdleProbe /\ IdleGrid /\ IdleCtx /\ IdleImage /\ IdleFlag /\ IdleHeading /\ IdleBase /\ IdleLinks /\ IdleCalls
IdleButProbe ==
    IdleCascade /\ IdleMeta /\ IdleMarker /\ IdleGrid /\ IdleCtx /\ IdleImage /\ IdleFlag /\ IdleHeading /\ IdleBase /\ IdleLinks /\ IdleCalls
IdleButGrid ==
    IdleCascade /\ IdleMeta /\ IdleMarker /\ IdleProbe /\ IdleCtx /\ IdleImage /\ IdleFlag /\ IdleHeading /\ IdleBase /\ IdleLinks /\ IdleCalls
IdleButImage ==
    IdleCascade /\ IdleMeta /\ IdleMarker /\ IdleProbe /\ IdleGrid /\ IdleFlag /\ IdleHeading /\ IdleBase /\ IdleLinks /\ IdleCalls
IdleButHeading ==
    IdleCascade /\ IdleMeta /\ IdleMarker /\ IdleProbe /\ IdleGrid /\ IdleImage /\ IdleBase /\ IdleLinks /\ IdleCalls
IdleButBase ==
    IdleCascade /\ IdleMeta /\ IdleMarker /\ IdleProbe /\ IdleGrid /\ IdleImage /\ IdleFlag /\ IdleHeading /\ IdleLinks /\ IdleCalls
IdleButLinks ==
    IdleCascade /\ IdleMeta /\ IdleMarker /\ IdleProbe /\ IdleGrid /\ IdleCtx /\ IdleImage /\ IdleHeading /\ IdleBase /\ IdleCalls
IdleButCalls ==
    IdleCascade /\ IdleMeta /\ IdleMarker /\ IdleProbe /\ IdleGrid /\ IdleCtx /\ IdleImage /\ IdleHeading /\ IdleBase /\ IdleLinks

(***************************************************************************)
(* The cascade as a state machine: the arguments are drawn, the cascade    *)
(* is applied, and it is applied again to its own result.                  *)
(***************************************************************************)
InitCascade ==
    /\ pc = "cascade"
    /\ \E pr \in StylePairs(MaxSet) : parent = pr.parent /\ child = pr.child
    /\ toBlock \in BOOLEAN
    /\ resolved = ZeroStylePrimitive
    /\ resolved2 = ZeroStylePrimitive
    /\ IdleButCascade

Cascade ==
    /\ pc = "cascade"
    /\ resolved' = cascadeStylePrimitive(parent, child, toBlock)
    /\ pc' = "cascaded"
    /\ UNCHANGED <<parent, child, toBlock, resolved2>>
    /\ UNCHANGED othersOfCascade

CascadeAgain ==
    /\ pc = "cascaded"
    /\ resolved2' = cascadeStylePrimitive(resolved, child, toBlock)
    /\ pc' = "recascaded"
    /\ UNCHANGED <<parent, child, toBlock, resolved>>
    /\ UNCHANGED othersOfCascade

NextCascade == Cascade \/ CascadeAgain

SpecCascade == InitCascade /\ [][NextCascade]_vars

(***************************************************************************)
(* Properties of the cascade.                                              *)
(***************************************************************************)
\* the attributes resolved parent-unless-child-sets-it: the two colors, the
\* nine decorations, the three case transforms, the six scaling parameters
CascadedFields == ColorFields \cup BoolFields \cup KittyFields
NonFramingFields == PointerFields \cup {"Format"}

\* C1: a call of cascadeStylePrimitive resolves every color, decoration, case
\* transform and scaling parameter to the child's value when the child sets
\* it (false and 0 included) and to the parent's otherwise, and leaves both
\* arguments as they were.
C1_CascadeResolves ==
    [][Cascade =>
        /\ \A f \in CascadedFields :
              resolved'[f] = IF child[f] # Nil THEN child[f] ELSE parent[f]
        /\ parent' = parent
        /\ child' = child]_vars

\* an explicit false of the child has overridden a true of the parent
C1_Witness ==
    /\ pc = "cascaded"
    /\ parent.Bold = Ptr(TRUE) /\ child.Bold = Ptr(FALSE)
    /\ resolved.Bold = Ptr(FALSE)

\* C2: with toBlock, a framing attribute the child leaves unset resolves to
\* the parent's value; without toBlock, every framing attribute is the
\* child's own value, whatever the parent holds.
C2_FramingInheritance ==
    pc # "cascade" =>
        \A f \in FramingFields :
            /\ (toBlock /\ child[f] = EmptyString) => resolved[f] = parent[f]
            /\ ~toBlock => resolved[f] = child[f]

\* without toBlock the parent's block prefix has not been inherited
C2_Witness ==
    /\ pc = "cascaded" /\ ~toBlock
    /\ parent.BlockPrefix # EmptyString /\ child.BlockPrefix = EmptyString
    /\ resolved.BlockPrefix = EmptyString

\* C3: cascading the child onto the result of the cascade again, with the
\* same toBlock, changes no non-framing attribute.
C3_CascadeIdempotent ==
    pc = "recascaded" =>
        \A f \in NonFramingFields : resolved2[f] = resolved[f]

\* the second cascade has run on a result that mixes parent and child values
C3_Witness ==
    /\ pc = "recascaded"
    /\ parent.Upper # Nil /\ child.Upper = Nil /\ child.Color # Nil
    /\ resolved2.Upper = parent.Upper /\ resolved2.Color = child.Color

(***************************************************************************)
(* ansi/kitty_text_sizing.go: the OSC 66 metadata.                         *)
(***************************************************************************)
\* the largest value buildKittyMetadata accepts for each parameter
ScaleLimit == 7
WidthLimit == 7
NumeratorLimit == 15
DenominatorLimit == 15
VAlignLimit == 2
HAlignLimit == 2

RECURSIVE FormatUint(_)
\* fmt's %d of an unsigned value: its decimal digits, most significant first
FormatUint(n) ==
    IF n < 10 THEN <<48 + n>> ELSE FormatUint(n \div 10) \o <<48 + (n % 10)>>

\* fmt.Sprintf("<key>=%d", v)
KeyValue(key, v) == <<key, 61>> \o FormatUint(v)

RECURSIVE Join(_, _)
\* strings.Join(parts, sep)
Join(parts, sep) ==
    IF parts = <<>> THEN <<>>
    ELSE IF Len(parts) = 1 THEN parts[1]
    ELSE parts[1] \o sep \o Join(Tail(parts), sep)

\* one `if rules.X != nil && ... { parts = append(parts, ...) }`
AppendIf(parts, cond, part) == IF cond THEN Append(parts, part) ELSE parts

\* a metadata builder that checks only the lower limit of the scale
buildKittyMetadataNoUpper(r) ==
    LET p1 == AppendIf(<<>>, r.KittyScale # Nil /\ Deref(r.KittyScale) > 1,
                       KeyValue(115, Deref(r.KittyScale)))
        p2 == AppendIf(p1, r.KittyWidth # Nil /\ Deref(r.KittyWidth) <= WidthLimit,
                       KeyValue(119, Deref(r.KittyWidth)))
        p3 == AppendIf(p2, r.KittyNumerator # Nil
                             /\ Deref(r.KittyNumerator) <= NumeratorLimit,
                       KeyValue(110, Deref(r.KittyNumerator)))
        p4 == AppendIf(p3, r.KittyDenominator # Nil
                             /\ Deref(r.KittyDenominator) <= DenominatorLimit,
                       KeyValue(100, Deref(r.KittyDenominator)))
        p5 == AppendIf(p4, r.KittyVAlign # Nil /\ Deref(r.KittyVAlign) <= VAlignLimit,
                       KeyValue(118, Deref(r.KittyVAlign)))
        p6 == AppendIf(p5, r.KittyHAlign # Nil /\ Deref(r.KittyHAlign) <= HAlignLimit,
                       KeyValue(104, Deref(r.KittyHAlign)))
    IN  Join(p6, <<58>>)

\* kitty_text_sizing.go:50-84
buildKittyMetadata(r) ==
    LET p1 == AppendIf(<<>>, r.KittyScale # Nil /\ Deref(r.KittyScale) > 1
                             /\ Deref(r.KittyScale) <= ScaleLimit,
                       KeyValue(115, Deref(r.KittyScale)))
        p2 == AppendIf(p1, r.KittyWidth # Nil /\ Deref(r.KittyWidth) <= WidthLimit,
                       KeyValue(119, Deref(r.KittyWidth)))
        p3 == AppendIf(p2, r.KittyNumerator # Nil
                             /\ Deref(r.KittyNumerator) <= NumeratorLimit,
                       KeyValue(110, Deref(r.KittyNumerator)))
        p4 == AppendIf(p3, r.KittyDenominator # Nil
                             /\ Deref(r.KittyDenominator) <= DenominatorLimit,
                       KeyValue(100, Deref(r.KittyDenominator)))
        p5 == AppendIf(p4, r.KittyVAlign # Nil /\ Deref(r.KittyVAlign) <= VAlignLimit,
                       KeyValue(118, Deref(r.KittyVAlign)))
        p6 == AppendIf(p5, r.KittyHAlign # Nil /\ Deref(r.KittyHAlign) <= HAlignLimit,
                       KeyValue(104, Deref(r.KittyHAlign)))
    IN  Join(p6, <<58>>)

\* the values a configured *uint is tried with: nil, the ends of the accepted
\* range, and values beyond its upper limit
UintChoices(limit) ==
    {Nil} \cup {Ptr(v) : v \in {0, 1, 2, limit} \cup (limit + 1 .. limit + UintOver)}

KittyRules ==
    {[ZeroStylePrimitive EXCEPT !.KittyScale = s, !.KittyWidth = wd,
                                !.KittyNumerator = n, !.KittyDenominator = d,
                                !.KittyVAlign = v, !.KittyHAlign = h] :
        s \in UintChoices(ScaleLimit), wd \in UintChoices(WidthLimit),
        n \in UintChoices(NumeratorLimit), d \in UintChoices(DenominatorLimit),
        v \in UintChoices(VAlignLimit), h \in UintChoices(HAlignLimit)}

InitMeta ==
    /\ pc = "meta"
    /\ rules \in KittyRules
    /\ meta = EmptyString
    /\ IdleButMeta

BuildMeta ==
    /\ pc = "meta"
    /\ meta' = buildKittyMetadata(rules)
    /\ pc' = "metaBuilt"
    /\ UNCHANGED rules
    /\ UNCHANGED othersOfMeta

NextMeta == BuildMeta

SpecMeta == InitMeta /\ [][NextMeta]_vars

(***************************************************************************)
(* Properties of the metadata.                                             *)
(***************************************************************************)
RECURSIVE Split(_, _)
\* the pieces of s between occurrences of the byte sep
Split(s, sep) ==
    IF \A i \in 1..Len(s) : s[i] # sep THEN <<s>>
    ELSE LET i == CHOOSE k \in 1..Len(s) :
                      s[k] = sep /\ \A j \in 1..(k - 1) : s[j] # sep
         IN  <<SubSeq(s, 1, i - 1)>> \o Split(SubSeq(s, i + 1, Len(s)), sep)

RECURSIVE ParseUint(_)
\* the number a string of decimal digits denotes; -1 when it is not one
ParseUint(ds) ==
    IF ds = <<>> \/ \E i \in 1..Len(ds) : ds[i] \notin 48..57 THEN -1
    ELSE IF Len(ds) = 1 THEN ds[1] - 48
    ELSE 10 * ParseUint(SubSeq(ds, 1, Len(ds) - 1)) + (ds[Len(ds)] - 48)

\* the <<key, value>> pairs a metadata string carries, in their order
ParseMeta(m) ==
    IF m = <<>> THEN <<>>
    ELSE LET toks == Split(m, 58)
         IN  [i \in 1..Len(toks) |->
                 IF Len(toks[i]) >= 3 /\ toks[i][2] = 61
                 THEN <<toks[i][1], ParseUint(SubSeq(toks[i], 3, Len(toks[i])))>>
                 ELSE <<0, -1>>]

\* the keys of the wire format in their fixed order, each with the field it
\* carries and the range of values documented for it
KittyKeys ==
    << [key |-> 115, field |-> "KittyScale", lo |-> 2, hi |-> 7],
       [key |-> 119, field |-> "KittyWidth", lo |-> 0, hi |-> 7],
       [key |-> 110, field |-> "KittyNumerator", lo |-> 0, hi |-> 15],
       [key |-> 100, field |-> "KittyDenominator", lo |-> 0, hi |-> 15],
       [key |-> 118, field |-> "KittyVAlign", lo |-> 0, hi |-> 2],
       [key |-> 104, field |-> "KittyHAlign", lo |-> 0, hi |-> 2] >>

InRange(r, k) == r[k.field] # Nil /\ Deref(r[k.field]) \in k.lo..k.hi

\* C4: the metadata carries a key exactly for the parameters that are set
\* and within their range, with the configured value, in the order
\* s, w, n, d, v, h and separated by colons; a value out of range never
\* appears in it.
C4_MetadataInRange ==
    pc = "metaBuilt" =>
        LET want == SelectSeq(KittyKeys, LAMBDA k : InRange(rules, k))
        IN  ParseMeta(meta) =
                [i \in 1..Len(want) |-> <<want[i].key, Deref(rules[want[i].field])>>]

\* C17: when the metadata carries both an n key and a d key, the value of
\* d is greater than the value of n.
C17_DenominatorAboveNumerator ==
    pc = "metaBuilt" =>
        LET pm == ParseMeta(meta)
        IN  \A i, j \in 1..Len(pm) :
                (pm[i][1] = 110 /\ pm[j][1] = 100) => pm[j][2] > pm[i][2]

\* a scale of 9 and a numerator of 16 were dropped, a width of 0 and an
\* alignment of 2 were kept: the metadata is "w=0:v=2"
C4_Witness ==
    /\ pc = "metaBuilt"
    /\ rules.KittyScale = Ptr(9) /\ rules.KittyNumerator = Ptr(16)
    /\ rules.KittyWidth = Ptr(0) /\ rules.KittyVAlign = Ptr(2)
    /\ meta = <<119, 61, 48, 58, 118, 61, 50>>

(***************************************************************************)
(* ansi/kitty_text_sizing.go: the wrap-proof marker and its decoding.      *)
(***************************************************************************)
\* "KITTY_TEXT_SIZE:"
markerPrefix == <<75, 73, 84, 84, 89, 95, 84, 69, 88, 84, 95, 83, 73, 90, 69, 58>>
\* ":END_KITTY_TEXT_SIZE"
markerSuffix ==
    <<58, 69, 78, 68, 95, 75, 73, 84, 84, 89, 95, 84, 69, 88, 84, 95, 83, 73, 90, 69>>

\* the character of the standard base64 alphabet for a 6-bit value
B64Char(v) ==
    IF v < 26 THEN 65 + v
    ELSE IF v < 52 THEN 97 + (v - 26)
    ELSE IF v < 62 THEN 48 + (v - 52)
    ELSE IF v = 62 THEN 43 ELSE 47

\* the 6-bit value of a character of the alphabet, -1 for any other byte
B64Val(c) ==
    IF c \in 65..90 THEN c - 65
    ELSE IF c \in 97..122 THEN c - 97 + 26
    ELSE IF c \in 48..57 THEN c - 48 + 52
    ELSE IF c = 43 THEN 62
    ELSE IF c = 47 THEN 63 ELSE -1

RECURSIVE base64Encode(_)
\* kitty_text_sizing.go:404-406: base64.StdEncoding.EncodeToString
base64Encode(b) ==
    IF Len(b) = 0 THEN <<>>
    ELSE IF Len(b) = 1 THEN
        <<B64Char(b[1] \div 4), B64Char((b[1] % 4) * 16), 61, 61>>
    ELSE IF Len(b) = 2 THEN
        <<B64Char(b[1] \div 4), B64Char((b[1] % 4) * 16 + b[2] \div 16),
          B64Char((b[2] % 16) * 4), 61>>
    ELSE <<B64Char(b[1] \div 4), B64Char((b[1] % 4) * 16 + b[2] \div 16),
           B64Char((b[2] % 16) * 4 + b[3] \div 64), B64Char(b[3] % 64)>>
         \o base64Encode(SubSeq(b, 4, Len(b)))

\* base64.StdEncoding ignores carriage returns and line feeds in its input
StripNewlines(s) == SelectSeq(s, LAMBDA c : c # 10 /\ c # 13)

\* whether the four characters q are a quantum the decoder accepts; only the
\* last quantum may be padded
QuantumOK(q, last) ==
    /\ B64Val(q[1]) >= 0 /\ B64Val(q[2]) >= 0
    /\ \/ B64Val(q[3]) >= 0 /\ B64Val(q[4]) >= 0
       \/ last /\ B64Val(q[3]) >= 0 /\ q[4] = 61
       \/ last /\ q[3] = 61 /\ q[4] = 61

\* the bytes a quantum stands for
QuantumBytes(q) ==
    LET b1 == B64Val(q[1]) * 4 + B64Val(q[2]) \div 16
    IN  IF q[3] = 61 THEN <<b1>>
        ELSE LET b2 == (B64Val(q[2]) % 16) * 16 + B64Val(q[3]) \div 4
             IN  IF q[4] = 61 THEN <<b1, b2>>
                 ELSE <<b1, b2, (B64Val(q[3]) % 4) * 64 + B64Val(q[4])>>

RECURSIVE DecodeQuanta(_)
\* [err, bytes] of a newline-free input
DecodeQuanta(s) ==
    IF Len(s) = 0 THEN [err |-> FALSE, bytes |-> <<>>]
    ELSE IF Len(s) < 4 THEN [err |-> TRUE, bytes |-> <<>>]
    ELSE LET q == SubSeq(s, 1, 4)
             rest == SubSeq(s, 5, Len(s))
         IN  IF ~QuantumOK(q, Len(rest) = 0) THEN [err |-> TRUE, bytes |-> <<>>]
             ELSE LET r == DecodeQuanta(rest)
                  IN  IF r.err THEN r
                      ELSE [err |-> FALSE, bytes |-> QuantumBytes(q) \o r.bytes]

\* kitty_text_sizing.go:409-415: base64.StdEncoding.DecodeString
base64Decode(s) == DecodeQuanta(StripNewlines(s))

\* strings.Index(s, sub): the offset of the first occurrence, or -1
Index(s, sub) ==
    LET at == {i \in 0..(Len(s) - Len(sub)) :
                   s[i + 1] = sub[1] /\ SubSeq(s, i + 1, i + Len(sub)) = sub}
    IN  IF at = {} THEN -1 ELSE CHOOSE i \in at : \A j \in at : i <= j

\* the Go slices s[:i] and s[i:]
Upto(s, i) == SubSeq(s, 1, i)
From(s, i) == SubSeq(s, i + 1, Len(s))

RECURSIVE DecodeKittyTextSizeMarkers(_)
\* kitty_text_sizing.go:419-453: each turn of the loop searches the whole of
\* the result so far, what earlier turns spliced in included
DecodeKittyTextSizeMarkers(result) ==
    LET startIdx == Index(result, markerPrefix)
    IN  IF startIdx = -1 THEN result
        ELSE LET rel == Index(From(result, startIdx), markerSuffix)
             IN  IF rel = -1 THEN result
                 ELSE LET endIdx == rel + startIdx
                          b64Start == startIdx + Len(markerPrefix)
                          b64Content == SubSeq(result, b64Start + 1, endIdx)
                          d == base64Decode(b64Content)
                          tail == From(result, endIdx + Len(markerSuffix))
                      IN  IF d.err
                          THEN DecodeKittyTextSizeMarkers(Upto(result, startIdx) \o tail)
                          ELSE DecodeKittyTextSizeMarkers(
                                   Upto(result, startIdx) \o d.bytes \o tail)

\* heading.go:93: the marker written for the text osc66Output
Marker(osc66Output) == markerPrefix \o base64Encode(osc66Output) \o markerSuffix

\* what the texts are made of: a letter, a colon, a semicolon, the control
\* bytes ESC and BEL, a line feed, the two sentinels and a base64 quantum
Pieces ==
    {<<97>>, <<58>>, <<59>>, <<27>>, <<7>>, <<10>>, markerPrefix, markerSuffix,
     <<81, 81, 61, 61>>}

RECURSIVE Texts(_)
\* the texts of at most n pieces
Texts(n) ==
    IF n = 0 THEN {<<>>}
    ELSE LET prev == Texts(n - 1)
         IN  prev \cup {t \o p : t \in prev, p \in Pieces}

InitMarker ==
    /\ pc \in {"wrap", "text"}
    /\ before \in Texts(1)
    /\ payload \in Texts(MaxPieces)
    /\ after \in Texts(1)
    /\ composed = EmptyString
    /\ decoded = EmptyString
    /\ IdleButMarker

\* the renderer writes the marker between the rest of the output
WrapMarker ==
    /\ pc = "wrap"
    /\ composed' = before \o Marker(payload) \o after
    /\ pc' = "wrapped"
    /\ UNCHANGED <<before, payload, after, decoded>>
    /\ UNCHANGED othersOfMarker

\* the final pass over the composed output
DecodeMarkers ==
    /\ pc = "wrapped"
    /\ decoded' = DecodeKittyTextSizeMarkers(composed)
    /\ pc' = "decoded"
    /\ UNCHANGED <<before, payload, after, composed>>
    /\ UNCHANGED othersOfMarker

\* the final pass over a text that is the three parts as they are
DecodeText ==
    /\ pc = "text"
    /\ composed' = before \o payload \o after
    /\ decoded' = DecodeKittyTextSizeMarkers(before \o payload \o after)
    /\ pc' = "textDecoded"
    /\ UNCHANGED <<before, payload, after>>
    /\ UNCHANGED othersOfMarker

NextMarker == WrapMarker \/ DecodeMarkers \/ DecodeText

SpecMarker == InitMarker /\ [][NextMarker]_vars

(***************************************************************************)
(* Properties of the marker.                                               *)
(***************************************************************************)
\* C5: decoding the output that holds one marker gives the text before it,
\* the marker's payload and the text after it, each exactly.
C5_RoundTrip ==
    pc = "decoded" => decoded = before \o payload \o after

\* C12: the text DecodeKittyTextSizeMarkers returns holds no opening
\* sentinel: a marker whose content is no base64 and an opening sentinel
\* that no closing sentinel follows are stripped; a text without an opening
\* sentinel is returned as it is.
C12_FailedMarkerStripped ==
    pc = "textDecoded" =>
        /\ Index(decoded, markerPrefix) = -1
        /\ Index(composed, markerPrefix) = -1 => decoded = composed

(***************************************************************************)
(* ansi/kitty_text_sizing.go: the capability probe.                        *)
(***************************************************************************)
\* the terminal modes the probe can find: echo, line buffering and signal
\* generation each on or off
TermModes == [echo : BOOLEAN, icanon : BOOLEAN, isig : BOOLEAN]

\* kitty_text_sizing_unix.go:15-37: the mode makeRaw sets
RawMode(m) == [m EXCEPT !.echo = FALSE, !.icanon = FALSE, !.isig = FALSE]

\* a classification that takes any advance of the cursor for width support
ClassifyAnyAdvance(c1, c2, c3) ==
    IF c2 = c1 THEN "KittyTextSizingNone"
    ELSE LET widthSupported == (c2 - c1) >= 1
             scaleSupported == (c3 - c2) = 2
         IN  IF widthSupported /\ scaleSupported THEN "KittyTextSizingFull"
             ELSE IF widthSupported THEN "KittyTextSizingWidth"
             ELSE "KittyTextSizingNone"

\* kitty_text_sizing.go:343-360
Classify(c1, c2, c3) ==
    IF c2 = c1 THEN "KittyTextSizingNone"
    ELSE LET widthSupported == (c2 - c1) = 2
             scaleSupported == (c3 - c2) = 2
         IN  IF widthSupported /\ scaleSupported THEN "KittyTextSizingFull"
             ELSE IF widthSupported THEN "KittyTextSizingWidth"
             ELSE "KittyTextSizingNone"

InitProbe ==
    /\ pc = "probe"
    /\ isTerminal \in BOOLEAN
    /\ termMode \in TermModes
    /\ oldState = Nil
    /\ col1 = 0 /\ col2 = 0 /\ col3 = 0
    /\ capability = "KittyTextSizingNone" /\ probeErr = "nil"
    /\ timeout \in 0..MaxTimeout /\ waited = 0
    /\ IdleButProbe

\* a return that leaves the terminal as the probe set it
NotRestored == termMode

\* kitty_text_sizing.go:282: the deferred restoreTerminal(fd, oldState)
Restored == IF oldState = Nil THEN termMode ELSE Deref(oldState)

\* kitty_text_sizing.go:273-275: standard output is no terminal
ProbeNotTerminal ==
    /\ pc = "probe" /\ ~isTerminal
    /\ pc' = "returned"
    /\ UNCHANGED probeVars
    /\ UNCHANGED othersOfProbe

\* kitty_text_sizing.go:278-281: makeRaw fails, the mode is left as it was
ProbeMakeRawFails ==
    /\ pc = "probe" /\ isTerminal
    /\ probeErr' = "failed to set raw mode"
    /\ pc' = "returned"
    /\ UNCHANGED <<isTerminal, termMode, oldState, col1, col2, col3, capability,
                   timeout, waited>>
    /\ UNCHANGED othersOfProbe

\* kitty_text_sizing.go:278-320: raw mode is set and the first report requested
ProbeMakeRaw ==
    /\ pc = "probe" /\ isTerminal
    /\ oldState' = Ptr(termMode)
    /\ termMode' = RawMode(termMode)
    /\ waited' = 0
    /\ pc' = "read1"
    /\ UNCHANGED <<isTerminal, col1, col2, col3, capability, probeErr, timeout>>
    /\ UNCHANGED othersOfProbe

\* kitty_text_sizing.go:311-316: time passes while a read waits, up to
\* the timeout
ProbeTick ==
    /\ pc \in {"read1", "read2", "read3"}
    /\ waited < timeout
    /\ waited' = waited + 1
    /\ UNCHANGED <<pc, isTerminal, termMode, oldState, col1, col2, col3, capability,
                   probeErr, timeout>>
    /\ UNCHANGED othersOfProbe

\* kitty_text_sizing.go:295-300, 312-313 and 322-324: a read fails; the
\* probe returns the error and the deferred restore runs
ProbeReadFails ==
    /\ pc \in {"read1", "read2", "read3"}
    /\ probeErr' = "read error"
    /\ capability' = "KittyTextSizingNone"
    /\ termMode' = Restored
    /\ pc' = "returned"
    /\ UNCHANGED <<isTerminal, oldState, col1, col2, col3, timeout, waited>>
    /\ UNCHANGED othersOfProbe

\* kitty_text_sizing.go:314-315 and 322-324: the timer of a read fires; the
\* probe returns the error and the deferred restore runs
ProbeTimeout ==
    /\ pc \in {"read1", "read2", "read3"}
    /\ waited = timeout
    /\ probeErr' = "timeout waiting for CPR response"
    /\ capability' = "KittyTextSizingNone"
    /\ termMode' = Restored
    /\ pc' = "returned"
    /\ UNCHANGED <<isTerminal, oldState, col1, col2, col3, timeout, waited>>
    /\ UNCHANGED othersOfProbe

\* kitty_text_sizing.go:321-328: the first report arrives, the w=2 test is sent
ProbeRead1 ==
    /\ pc = "read1"
    /\ \E c \in 1..MaxCol : col1' = c
    /\ waited' = 0
    /\ pc' = "read2"
    /\ UNCHANGED <<isTerminal, termMode, oldState, col2, col3, capability, probeErr,
                   timeout>>
    /\ UNCHANGED othersOfProbe

\* kitty_text_sizing.go:328-335: the second report arrives, the s=2 test is sent
ProbeRead2 ==
    /\ pc = "read2"
    /\ \E c \in 1..MaxCol : col2' = c
    /\ waited' = 0
    /\ pc' = "read3"
    /\ UNCHANGED <<isTerminal, termMode, oldState, col1, col3, capability, probeErr,
                   timeout>>
    /\ UNCHANGED othersOfProbe

\* kitty_text_sizing.go:335-360: the third report arrives, the columns are
\* classified, the probe returns and the deferred restore runs
ProbeRead3 ==
    /\ pc = "read3"
    /\ \E c \in 1..MaxCol :
          /\ col3' = c
          /\ capability' = Classify(col1, col2, c)
    /\ termMode' = Restored
    /\ pc' = "classified"
    /\ UNCHANGED <<isTerminal, oldState, col1, col2, probeErr, timeout, waited>>
    /\ UNCHANGED othersOfProbe

NextProbe ==
    \/ ProbeNotTerminal \/ ProbeMakeRawFails \/ ProbeMakeRaw
    \/ ProbeTick \/ ProbeReadFails \/ ProbeTimeout
    \/ ProbeRead1 \/ ProbeRead2 \/ ProbeRead3

SpecProbe == InitProbe /\ [][NextProbe]_vars

(***************************************************************************)
(* Properties of the probe.                                                *)
(***************************************************************************)
\* C6: the capability returned after three reports is Full exactly when
\* C2-C1 = 2 and C3-C2 = 2, WidthOnly exactly when C2-C1 = 2 and C3-C2 # 2,
\* and None in every other case; (5,7,9) is Full, (5,5,5) None, (5,7,7)
\* WidthOnly.
C6_Classification ==
    pc = "classified" =>
        /\ probeErr = "nil"
        /\ capability \in {"KittyTextSizingNone", "KittyTextSizingWidth",
                           "KittyTextSizingFull"}
        /\ capability = "KittyTextSizingFull" <=> (col2 - col1 = 2 /\ col3 - col2 = 2)
        /\ capability = "KittyTextSizingWidth" <=> (col2 - col1 = 2 /\ col3 - col2 # 2)
        /\ (col1 = 5 /\ col2 = 7 /\ col3 = 9) => capability = "KittyTextSizingFull"
        /\ (col1 = 5 /\ col2 = 5 /\ col3 = 5) => capability = "KittyTextSizingNone"
        /\ (col1 = 5 /\ col2 = 7 /\ col3 = 7) => capability = "KittyTextSizingWidth"

\* the columns 5, 7, 9 have been classified as full support
C6_Witness ==
    /\ pc = "classified"
    /\ col1 = 5 /\ col2 = 7 /\ col3 = 9
    /\ capability = "KittyTextSizingFull"

kittyDiacritics ==
    <<773, 781, 782, 784, 786, 829, 830, 831,
      838, 842, 843, 844, 848, 849, 850, 855,
      859, 867, 868, 869, 870, 871, 872, 873,
      874, 875, 876, 877, 878, 879, 1155, 1156>>

\* kitty_image.go:74-79
kittyRowColDiacritic(idx) ==
    IF idx < 0 \/ idx >= Len(kittyDiacritics) THEN <<>>
    ELSE <<kittyDiacritics[idx + 1]>>

\* kitty_image.go:126: the Go literal "\U00010EEEE" is the escape \U00010EEE,
\* the code point U+10EEE, followed by the letter E
placeholderRune == <<69358, 69>>

\* kitty_image.go:125: "\x1b[0m"
reset == <<27, 91, 48, 109>>

\* fmt.Sprintf("\x1b[<n>;2;%d;%d;%dm", r, g, b) for <n> the two digits n1 n2
ColorSGR(n1, n2, r, g, b) ==
    <<27, 91, n1, n2, 59, 50, 59>> \o FormatUint(r) \o <<59>> \o FormatUint(g)
        \o <<59>> \o FormatUint(b) \o <<109>>

\* the uint32 operations x >> k (as a division by 2^k) and x & 0xff
ShiftRight16(x) == x \div 65536
ShiftRight8(x) == x \div 256
LowByte(x) == x % 256

RECURSIVE GridCells(_, _, _, _)
\* kitty_image.go:130-139: the inner loop over col, from column c on
GridCells(cell, row, c, cs) ==
    IF c >= cs THEN <<>>
    ELSE cell \o placeholderRune \o kittyRowColDiacritic(row)
              \o kittyRowColDiacritic(c) \o GridCells(cell, row, c + 1, cs)

RECURSIVE GridRows(_, _, _, _)
\* kitty_image.go:129-142: the outer loop over row, from row r on
GridRows(cell, r, cs, rs) ==
    IF r >= rs THEN <<>>
    ELSE GridCells(cell, r, 0, cs) \o <<10>> \o GridRows(cell, r + 1, cs, rs)

\* a grid builder that forgets to mask the green byte of the image id
buildKittyPlaceholderGridNoMask(id, cs, rs) ==
    LET fg == ColorSGR(51, 56, LowByte(ShiftRight16(id)), ShiftRight8(id), LowByte(id))
        placementID == id
        ul == ColorSGR(53, 56, LowByte(ShiftRight16(placementID)),
                       LowByte(ShiftRight8(placementID)), LowByte(placementID))
    IN  GridRows(fg \o ul, 0, cs, rs) \o reset

\* kitty_image.go:111-146
buildKittyPlaceholderGrid(id, cs, rs) ==
    LET fg == ColorSGR(51, 56, LowByte(ShiftRight16(id)),
                       LowByte(ShiftRight8(id)), LowByte(id))
        placementID == id
        ul == ColorSGR(53, 56, LowByte(ShiftRight16(placementID)),
                       LowByte(ShiftRight8(placementID)), LowByte(placementID))
    IN  GridRows(fg \o ul, 0, cs, rs) \o reset

\* image ids of one, two, three and four significant bytes (the largest here
\* is 0x7FFFFFFF: of an id, only x >> k and x & 0xff are ever taken)
ImageIDs == {0, 1, 42, 255, 256, 66051, 16777215, 16777258, 2147483647}

\* the sizes of a grid: the small ones, and a single row or column as long
\* as the diacritic table and one longer
GridSizes ==
    LET n == Len(kittyDiacritics)
    IN  ((0..MaxGrid) \X (0..MaxGrid)) \cup ({n, n + 1} \X {1}) \cup ({1} \X {n, n + 1})

InitGrid ==
    /\ pc = "grid"
    /\ imageID \in ImageIDs
    /\ \E sz \in GridSizes : cols = sz[1] /\ rows = sz[2]
    /\ grid = EmptyString
    /\ IdleButGrid

BuildGrid ==
    /\ pc = "grid"
    /\ grid' = buildKittyPlaceholderGrid(imageID, cols, rows)
    /\ pc' = "gridBuilt"
    /\ UNCHANGED <<imageID, cols, rows>>
    /\ UNCHANGED othersOfGrid

NextGrid == BuildGrid

SpecGrid == InitGrid /\ [][NextGrid]_vars

(***************************************************************************)
(* Properties of the grid.                                                 *)
(***************************************************************************)
\* the position of the first byte b of s at or after position i, 0 if none
NextByte(s, b, i) ==
    LET at == {k \in i..Len(s) : s[k] = b}
    IN  IF at = {} THEN 0 ELSE CHOOSE k \in at : \A j \in at : k <= j

\* reads "<intro>R;G;Bm" at the head of s, for the 7 code points intro:
\* [ok, rgb, rest]
ReadColor(s, intro) ==
    LET bad == [ok |-> FALSE, rgb |-> <<>>, rest |-> <<>>]
        m == NextByte(s, 109, 8)
    IN  IF Len(s) < 8 \/ SubSeq(s, 1, 7) # intro \/ m = 0 THEN bad
        ELSE LET nums == Split(SubSeq(s, 8, m - 1), 59)
             IN  IF Len(nums) # 3 THEN bad
                 ELSE [ok |-> TRUE,
                       rgb |-> <<ParseUint(nums[1]), ParseUint(nums[2]),
                                 ParseUint(nums[3])>>,
                       rest |-> SubSeq(s, m + 1, Len(s))]

\* what ReadCells gives for text that is no cell
BadCell == [ok |-> FALSE, fg |-> <<>>, ul |-> <<>>, glyph |-> <<>>]

RECURSIVE ReadCells(_)
\* the cells of one line of the grid, each [ok, fg, ul, glyph]; it ends with
\* BadCell when the line is not a sequence of cells
ReadCells(line) ==
    IF line = <<>> THEN <<>>
    ELSE LET f == ReadColor(line, <<27, 91, 51, 56, 59, 50, 59>>)
         IN  IF ~f.ok THEN <<BadCell>>
             ELSE LET u == ReadColor(f.rest, <<27, 91, 53, 56, 59, 50, 59>>)
                  IN  IF ~u.ok THEN <<BadCell>>
                      ELSE LET e == NextByte(u.rest, 27, 1)
                               n == IF e = 0 THEN Len(u.rest) ELSE e - 1
                           IN  <<[ok |-> TRUE, fg |-> f.rgb, ul |-> u.rgb,
                                  glyph |-> SubSeq(u.rest, 1, n)]>>
                               \o ReadCells(SubSeq(u.rest, n + 1, Len(u.rest)))

\* the byte triple of a 32-bit id: bits 16-23, bits 8-15, bits 0-7
Triple(id) == <<(id \div 65536) % 256, (id \div 256) % 256, id % 256>>

\* C7: the grid is rows lines, each of cols cells and ended by a newline,
\* followed by one attribute reset; the cell at (row, col) carries the
\* foreground and the underline color Triple(imageID) and the diacritics of
\* its row and column, in row-major order.  Image 42 with 2 columns and 1
\* row gives two cells of foreground and underline (0,0,42).
C7_GridCells ==
    (/\ pc = "gridBuilt"
     /\ cols <= Len(kittyDiacritics) /\ rows <= Len(kittyDiacritics)) =>
        LET lines == Split(grid, 10)
        IN  /\ Len(lines) = rows + 1
            /\ lines[rows + 1] = reset
            /\ \A r \in 1..rows :
                  LET cells == ReadCells(lines[r])
                  IN  /\ Len(cells) = cols
                      /\ \A c \in 1..cols :
                            /\ cells[c].ok
                            /\ cells[c].fg = Triple(imageID)
                            /\ cells[c].ul = Triple(imageID)
                            /\ Len(cells[c].glyph) >= 2
                            /\ SubSeq(cells[c].glyph, Len(cells[c].glyph) - 1,
                                      Len(cells[c].glyph))
                                   = <<kittyDiacritics[r], kittyDiacritics[c]>>
            /\ (imageID = 42 /\ cols = 2 /\ rows = 1) =>
                  LET cells == ReadCells(lines[1])
                  IN  /\ Len(cells) = 2
                      /\ \A c \in 1..2 :
                            cells[c].fg = <<0, 0, 42>> /\ cells[c].ul = <<0, 0, 42>>

\* C16: for all rows and cols, those above 32 included, the grid has at
\* most 32 lines of at most 32 cells, and every cell is one placeholder code
\* point followed by exactly two marks, the table's entry of its row and
\* then of its column.
C16_CellsWithinTable ==
    pc = "gridBuilt" =>
        LET lines == Split(grid, 10)
            n == Len(kittyDiacritics)
        IN  /\ Len(lines) - 1 <= n
            /\ \A r \in 1..(Len(lines) - 1) :
                  LET cells == ReadCells(lines[r])
                  IN  /\ Len(cells) <= n
                      /\ r <= n =>
                            \A c \in 1..Len(cells) :
                               /\ cells[c].ok
                               /\ c <= n =>
                                    /\ Len(cells[c].glyph) = 3
                                    /\ Tail(cells[c].glyph)
                                          = <<kittyDiacritics[r], kittyDiacritics[c]>>

\* C23: the grid built for an image id, with at least one column and one
\* row, differs from the grid that any other 32-bit image id gives for the
\* same columns and rows: the id can be recovered from the color triples.
C23_GridIdentifiesImage ==
    (pc = "gridBuilt" /\ cols >= 1 /\ rows >= 1) =>
        \A other \in ImageIDs \ {imageID} :
            buildKittyPlaceholderGrid(other, cols, rows) # grid

\* the same for the image ids below 2^24, which the three bytes of a color
\* hold in full
GridIdentifiesImageBelow24Bits ==
    (pc = "gridBuilt" /\ cols >= 1 /\ rows >= 1 /\ imageID < 16777216) =>
        \A other \in {i \in ImageIDs : i < 16777216} \ {imageID} :
            buildKittyPlaceholderGrid(other, cols, rows) # grid

\* the grid of image 42 with 2 columns and 1 row has been built
C7_Witness ==
    /\ pc = "gridBuilt"
    /\ imageID = 42 /\ cols = 2 /\ rows = 1
    /\ Len(ReadCells(Split(grid, 10)[1])) = 2
    /\ ReadCells(Split(grid, 10)[1])[2].fg = <<0, 0, 42>>

(***************************************************************************)
(* ansi/style.go: StyleBlock.                                              *)
(***************************************************************************)

\* style.go:281-295: a child's Margin is kept only when toBlock is false
cascadeStyle(p, c, tb) ==
    LET s1 == [c EXCEPT !.StylePrimitive =
                   cascadeStylePrimitive(p.StylePrimitive, c.StylePrimitive, tb)]
        s2 == IF tb THEN [s1 EXCEPT !.Indent = p.Indent, !.Margin = p.Margin] ELSE s1
    IN  [s2 EXCEPT !.Indent = OrElse(c.Indent, @)]

\* style.go:151-157: cascadeStyles(a, b)
cascadeStyles(a, b) ==
    cascadeStyle(cascadeStyle(ZeroStyleBlock, a, TRUE), b, TRUE)

(***************************************************************************)
(* The block stack (section 4.2 of the design): the root entry is first.   *)
(***************************************************************************)
Current(bs) == bs[Len(bs)]
Parent(bs) == bs[Len(bs) - 1]
Push(bs, e) == Append(bs, e)
Pop(bs) == SubSeq(bs, 1, Len(bs) - 1)
\* the style of a primitive rendered in the current scope
With(bs, c) == cascadeStylePrimitive(Current(bs).Style.StylePrimitive, c, FALSE)

(***************************************************************************)
(* ansi/baseelement.go: rendering a styled token.                          *)
(***************************************************************************)
IsLower(c) == c \in 97..122
IsUpper(c) == c \in 65..90
\* cases.Upper, cases.Lower and cases.Title of ASCII text
ToUpper(s) == [i \in 1..Len(s) |-> IF IsLower(s[i]) THEN s[i] - 32 ELSE s[i]]
ToLower(s) == [i \in 1..Len(s) |-> IF IsUpper(s[i]) THEN s[i] + 32 ELSE s[i]]
ToTitle(s) ==
    [i \in 1..Len(s) |->
        LET first == i = 1 \/ ~(IsLower(s[i - 1]) \/ IsUpper(s[i - 1]))
        IN  IF first THEN (IF IsLower(s[i]) THEN s[i] - 32 ELSE s[i])
            ELSE (IF IsUpper(s[i]) THEN s[i] + 32 ELSE s[i])]

IsTrue(p) == p # Nil /\ Deref(p)

\* the SGR parameters termenv collects for the rules, in the order of the
\* calls; a color is one of the ANSI colors "0".."7": 3<c> and 4<c>
StyleCodes(r, withFaint) ==
    LET c1 == AppendIf(<<>>, r.Color # Nil, <<51>> \o Deref(r.Color))
        c2 == AppendIf(c1, r.BackgroundColor # Nil, <<52>> \o Deref(r.BackgroundColor))
        c3 == AppendIf(c2, IsTrue(r.Underline), <<52>>)
        c4 == AppendIf(c3, IsTrue(r.Bold), <<49>>)
        c5 == AppendIf(c4, IsTrue(r.Italic), <<51>>)
        c6 == AppendIf(c5, IsTrue(r.CrossedOut), <<57>>)
        c7 == AppendIf(c6, IsTrue(r.Overlined), <<53, 51>>)
        c8 == AppendIf(c7, IsTrue(r.Inverse), <<55>>)
        c9 == AppendIf(c8, IsTrue(r.Blink), <<53>>)
    IN  AppendIf(c9, withFaint /\ IsTrue(r.Faint), <<50>>)

\* termenv's Style.String(): CSI codes m, the text, CSI 0 m
Styled(codes, s) ==
    IF codes = <<>> THEN s
    ELSE <<27, 91>> \o Join(codes, <<59>>) \o <<109>> \o s \o <<27, 91, 48, 109>>

\* baseelement.go:43-52: each transform that is on is applied to s itself,
\* so the last of upper, lower, title that is on decides
CaseTransform(r, s) ==
    LET o1 == IF IsTrue(r.Upper) THEN ToUpper(s) ELSE s
        o2 == IF IsTrue(r.Lower) THEN ToLower(s) ELSE o1
    IN  IF IsTrue(r.Title) THEN ToTitle(s) ELSE o2

\* baseelement.go:38-82: what renderText writes
renderText(r, s) ==
    IF Len(s) = 0 THEN <<>> ELSE Styled(StyleCodes(r, FALSE), CaseTransform(r, s))

\* "{{.text}}"
TextAction == <<123, 123, 46, 116, 101, 120, 116, 125, 125>>

RECURSIVE formatToken(_, _)
\* baseelement.go:23-36: the template format executed with text = token:
\* [err, s]; a "{{" that does not open {{.text}} fails to parse
formatToken(format, token) ==
    LET i == Index(format, <<123, 123>>)
    IN  IF i = -1 THEN [err |-> FALSE, s |-> format]
        ELSE IF Len(format) < i + Len(TextAction)
                \/ SubSeq(format, i + 1, i + Len(TextAction)) # TextAction
        THEN [err |-> TRUE, s |-> <<>>]
        ELSE LET r == formatToken(From(format, i + Len(TextAction)), token)
             IN  IF r.err THEN r
                 ELSE [err |-> FALSE, s |-> Upto(format, i) \o token \o r.s]

\* baseelement.go:142-161: the punctuation a backslash escapes
Escapable == {92, 96, 42, 95, 123, 125, 91, 93, 60, 62, 40, 41, 35, 43, 45, 46, 33, 124}

RECURSIVE Unescape(_)
\* escapeReplacer.Replace(s)
Unescape(s) ==
    IF Len(s) = 0 THEN <<>>
    ELSE IF Len(s) >= 2 /\ s[1] = 92 /\ s[2] \in Escapable
    THEN <<s[2]>> \o Unescape(SubSeq(s, 3, Len(s)))
    ELSE <<s[1]>> \o Unescape(Tail(s))

\* a rendering that writes the suffixes only after the token was written
doRenderNoDefer(e, st1, st2) ==
    LET prefixStyle == [st1 EXCEPT !.Color = st1.PrefixColor]
        head == Concat(<<renderText(prefixStyle, e.Prefix),
                         renderText(prefixStyle, st2.BlockPrefix),
                         renderText(st2, st2.Prefix)>>)
        f == IF Len(st2.Format) > 0 THEN formatToken(st2.Format, e.Token)
             ELSE [err |-> FALSE, s |-> e.Token]
    IN  IF f.err THEN [err |-> TRUE, out |-> head]
        ELSE [err |-> FALSE,
              out |-> Concat(<<head, renderText(st2, Unescape(f.s)),
                               renderText(st2, st2.Suffix),
                               renderText(prefixStyle, st2.BlockSuffix)>>)]

\* baseelement.go:101-139: [err, out] of rendering the element e (Token,
\* Prefix, Style) with the parent style st1 and the resolved style st2
doRender(e, st1, st2) ==
    LET prefixStyle == [st1 EXCEPT !.Color = st1.PrefixColor]
        blockPrefixStyle == [st1 EXCEPT !.Color = st1.PrefixColor]
        head == Concat(<<renderText(prefixStyle, e.Prefix),
                         renderText(blockPrefixStyle, st2.BlockPrefix),
                         renderText(st2, st2.Prefix)>>)
        \* the deferred calls run last registered first
        deferred == renderText(st2, st2.Suffix)
                        \o renderText(blockPrefixStyle, st2.BlockSuffix)
        f == IF Len(st2.Format) > 0 THEN formatToken(st2.Format, e.Token)
             ELSE [err |-> FALSE, s |-> e.Token]
    IN  IF f.err THEN [err |-> TRUE, out |-> head \o deferred]
        ELSE [err |-> FALSE,
              out |-> head \o renderText(st2, Unescape(f.s)) \o deferred]

\* baseelement.go:94-99
BaseElementRender(e, bs) ==
    doRender(e, Current(bs).Style.StylePrimitive, With(bs, e.Style))

(***************************************************************************)
(* ansi/image.go and ansi/kitty_image.go: rendering an image node.         *)
(***************************************************************************)
\* fmt.Sprintf("[KITTY_IMAGE:id=%d,cols=%d,rows=%d]", id, cs, rs)
ImageMarker(id, cs, rs) ==
    Concat(<< <<91, 75, 73, 84, 84, 89, 95, 73, 77, 65, 71, 69, 58, 105, 100, 61>>,
              FormatUint(id), <<44, 99, 111, 108, 115, 61>>, FormatUint(cs),
              <<44, 114, 111, 119, 115, 61>>, FormatUint(rs), <<93>> >>)

\* url.URL.IsAbs: the reference starts with a scheme and a colon
IsAbs(u) == LET i == Index(u, <<58>>) IN i > 0 /\ Index(u, <<47>>) \notin 0..i

\* resolveRelativeURL(base, rel): an absolute reference is kept, a relative
\* one is resolved against the base
resolveRelativeURL(base, rel) ==
    IF IsAbs(rel) \/ base = EmptyString THEN rel
    ELSE base \o (IF rel # <<>> /\ rel[1] = 47 THEN Tail(rel) ELSE rel)

\* strings.TrimSuffix(s, suffix)
TrimSuffix(s, suffix) ==
    IF Len(s) >= Len(suffix) /\ SubSeq(s, Len(s) - Len(suffix) + 1, Len(s)) = suffix
    THEN SubSeq(s, 1, Len(s) - Len(suffix))
    ELSE s

\* whether the configuration cfg (nil, or Enabled and ImageCache) has kitty
\* images on: image.go:21 and kitty_image.go:44
KittyOn(cfg) == cfg # Nil /\ Deref(cfg).Enabled /\ Deref(cfg).ImageCache # Nil
\* the answer (imageID, cols, rows, exists) of the lookup
Lookup(cfg) == Deref(Deref(cfg).ImageCache)

\* image.go:32-65: the standard rendering, [err, out]
StandardImage(e, bs, textStyle, urlStyle) ==
    LET style == IF e.TextOnly
                 THEN [textStyle EXCEPT !.Format = TrimSuffix(@, <<32, 226, 134, 146>>)]
                 ELSE textStyle
        t == IF Len(e.Text) > 0
             THEN BaseElementRender([Token |-> e.Text, Prefix |-> EmptyString,
                                     Style |-> style], bs)
             ELSE [err |-> FALSE, out |-> <<>>]
        u == IF Len(e.URL) > 0
             THEN BaseElementRender([Token |-> resolveRelativeURL(e.BaseURL, e.URL),
                                     Prefix |-> <<32>>, Style |-> urlStyle], bs)
             ELSE [err |-> FALSE, out |-> <<>>]
    IN  IF t.err THEN t
        ELSE IF e.TextOnly THEN t
        ELSE [err |-> u.err, out |-> t.out \o u.out]

\* image.go:19-66: ImageElement.Render, [err, out]
ImageElementRender(e, bs, cfg, textStyle, urlStyle) ==
    IF KittyOn(cfg) /\ Lookup(cfg).exists
    THEN [err |-> FALSE,
          out |-> ImageMarker(Lookup(cfg).imageID, Lookup(cfg).cols, Lookup(cfg).rows)]
    ELSE StandardImage(e, bs, textStyle, urlStyle)

\* kitty_image.go:36-63: KittyImageRenderer.renderImage on entering the node,
\* [out, status]
renderImage(e, cfg) ==
    IF ~KittyOn(cfg) THEN [out |-> <<>>, status |-> "WalkContinue"]
    ELSE IF ~Lookup(cfg).exists
    THEN \* "[IMAGE NOT IN CACHE: %s]"
         [out |-> <<91, 73, 77, 65, 71, 69, 32, 78, 79, 84, 32, 73, 78, 32,
                    67, 65, 67, 72, 69, 58, 32>> \o e.URL \o <<93>>,
          status |-> "WalkContinue"]
    ELSE [out |-> ImageMarker(Lookup(cfg).imageID, Lookup(cfg).cols, Lookup(cfg).rows),
          status |-> "WalkSkipChildren"]

\* the scopes an inline element is rendered in: the document alone, plain or
\* with a color and a prefix color
RootStacks ==
    {<<[Block |-> EmptyString, Style |-> ZeroStyleBlock]>>,
     <<[Block |-> EmptyString,
        Style |-> [ZeroStyleBlock EXCEPT
                      !.StylePrimitive = [ZeroStylePrimitive EXCEPT
                          !.Color = Ptr(<<50>>), !.PrefixColor = Ptr(<<49>>)]]]>>}

\* "Image: {{.text}} ->" with the arrow U+2192, and "{{"
ImageFormats ==
    {EmptyString,
     <<73, 109, 97, 103, 101, 58, 32>> \o TextAction \o <<32, 226, 134, 146>>,
     <<123, 123>>}

\* the configurations: none, disabled, enabled without a lookup, enabled
\* with a lookup that does not or does know the image
ImageConfigs ==
    {Nil,
     Ptr([Enabled |-> FALSE, ImageCache |-> Nil]),
     Ptr([Enabled |-> TRUE, ImageCache |-> Nil]),
     Ptr([Enabled |-> TRUE,
          ImageCache |-> Ptr([imageID |-> 0, cols |-> 0, rows |-> 0, exists |-> FALSE])]),
     Ptr([Enabled |-> TRUE,
          ImageCache |-> Ptr([imageID |-> 42, cols |-> 2, rows |-> 1, exists |-> TRUE])])}

\* alt texts "", "alt"; URLs "", "h:u", "/p"; base URLs "", "b/"
ImageNodes ==
    [Text : {EmptyString, <<97, 108, 116>>},
     BaseURL : {EmptyString, <<98, 47>>},
     URL : {EmptyString, <<104, 58, 117>>, <<47, 112>>},
     TextOnly : BOOLEAN]

InitImage ==
    /\ pc \in {"image", "walk"}
    /\ blockStack \in RootStacks
    /\ w = EmptyString
    /\ imageText \in {[ZeroStylePrimitive EXCEPT !.Format = f] : f \in ImageFormats}
    /\ imageStyle \in {ZeroStylePrimitive, [ZeroStylePrimitive EXCEPT !.Underline = Ptr(TRUE)]}
    /\ kittyImageConfig \in ImageConfigs
    /\ image \in ImageNodes
    /\ walkStatus = ""
    /\ renderErr = FALSE
    /\ IdleButImage

\* the tree traversal reaches the image node: the interceptor runs first
InterceptImage ==
    /\ pc = "walk"
    /\ LET r == renderImage(image, kittyImageConfig)
       IN  /\ w' = w \o r.out
           /\ walkStatus' = r.status
           /\ pc' = IF r.status = "WalkSkipChildren" THEN "imageDone" ELSE "image"
    /\ UNCHANGED <<blockStack, imageText, imageStyle, kittyImageConfig, image, renderErr>>
    /\ UNCHANGED othersOfImage

\* the image element is rendered: at once when there is no interceptor, and
\* after an interceptor that let the traversal continue
RenderImageElement ==
    /\ pc = "image"
    /\ LET r == ImageElementRender(image, blockStack, kittyImageConfig,
                                   imageText, imageStyle)
       IN  /\ w' = w \o r.out
           /\ renderErr' = r.err
    /\ pc' = "imageDone"
    /\ UNCHANGED <<blockStack, imageText, imageStyle, kittyImageConfig, image, walkStatus>>
    /\ UNCHANGED othersOfImage

NextImage == InterceptImage \/ RenderImageElement

SpecImage == InitImage /\ [][NextImage]_vars

(***************************************************************************)
(* Properties of image rendering.                                          *)
(***************************************************************************)
\* C8: with kitty images enabled and a lookup that does not know the image,
\* the output of rendering the node, directly or through the interceptor,
\* is what is written when kitty images are off; with plain styles that is
\* the alt text, one space and the resolved URL.
C8_NotFoundIsFallback ==
    (/\ pc = "imageDone"
     /\ KittyOn(kittyImageConfig) /\ ~Lookup(kittyImageConfig).exists) =>
        /\ w = ImageElementRender(image, blockStack, Nil, imageText, imageStyle).out
        /\ (/\ imageText = ZeroStylePrimitive /\ imageStyle = ZeroStylePrimitive
            /\ blockStack[1].Style = ZeroStyleBlock
            /\ ~image.TextOnly /\ image.Text # EmptyString /\ image.URL # EmptyString)
               => w = image.Text \o <<32>> \o resolveRelativeURL(image.BaseURL, image.URL)

(***************************************************************************)
(* ansi/heading.go: rendering a heading.                                   *)
(***************************************************************************)
\* kitty_text_sizing.go:41-46
hasKittyTextSizing(r) ==
    \/ r.KittyScale # Nil
    \/ r.KittyWidth # Nil
    \/ r.KittyNumerator # Nil
    \/ r.KittyDenominator # Nil

\* kitty_text_sizing.go:88-123
applyANSIStyles(r, s) == Styled(StyleCodes(r, TRUE), s)

IsSGRParam(c) == c \in 48..57 \/ c = 59

RECURSIVE SGREnd(_, _)
\* the index of the m that ends the run of digits and semicolons starting at
\* index i of s, 0 when something else ends it
SGREnd(s, i) ==
    IF i > Len(s) THEN 0
    ELSE IF s[i] = 109 THEN i
    ELSE IF IsSGRParam(s[i]) THEN SGREnd(s, i + 1)
    ELSE 0

RECURSIVE StripANSI(_)
\* kitty_text_sizing.go:173-180: every match of ESC [ [0-9;]* m is removed
StripANSI(s) ==
    IF Len(s) = 0 THEN <<>>
    ELSE IF Len(s) >= 2 /\ s[1] = 27 /\ s[2] = 91 /\ SGREnd(s, 3) # 0
    THEN StripANSI(From(s, SGREnd(s, 3)))
    ELSE <<s[1]>> \o StripANSI(Tail(s))

\* kitty_text_sizing.go:184-233: [prefix, suffix]
buildANSIWrapper(r) ==
    LET styled == Styled(StyleCodes(r, TRUE), EmptyString)
        idx == Index(styled, reset)
    IN  IF Len(styled) > 0 /\ idx >= 0
        THEN [prefix |-> Upto(styled, idx), suffix |-> reset]
        ELSE [prefix |-> EmptyString, suffix |-> EmptyString]

\* a scaled branch that reserves as many rows as the scale
GetKittyScaleRowsFull(r) ==
    IF r.KittyScale # Nil /\ Deref(r.KittyScale) > 1 THEN Deref(r.KittyScale) ELSE 0

\* kitty_text_sizing.go:238-243
GetKittyScaleRows(r) ==
    IF r.KittyScale # Nil /\ Deref(r.KittyScale) > 1 THEN Deref(r.KittyScale) - 1 ELSE 0

\* kitty_text_sizing.go:393-401: prefix ESC ] 66 ; meta ; text BEL suffix
buildOSC66Output(r, text) ==
    LET m == buildKittyMetadata(r)
        wr == buildANSIWrapper(r)
    IN  IF m = EmptyString THEN applyANSIStyles(r, text)
        ELSE Concat(<<wr.prefix, <<27, 93, 54, 54, 59>>, m, <<59>>, text, <<7>>, wr.suffix>>)

RECURSIVE Repeat(_, _)
Repeat(s, n) == IF n <= 0 THEN <<>> ELSE s \o Repeat(s, n - 1)

\* the configured word wrap
WordWrap == 80

RECURSIVE SumOf(_, _)
SumOf(bs, i) ==
    IF i = 0 THEN 0
    ELSE SumOf(bs, i - 1)
         + (IF bs[i].Style.Indent # Nil THEN Deref(bs[i].Style.Indent) ELSE 0)
         + (IF bs[i].Style.Margin # Nil THEN 2 * Deref(bs[i].Style.Margin) ELSE 0)

\* BlockStack.Width: the configured width less the indents and margins of
\* the entries
Width(bs) == IF SumOf(bs, Len(bs)) > WordWrap THEN 0 ELSE WordWrap - SumOf(bs, Len(bs))

\* wordwrap.Writer: a single line that fits the limit passes unchanged; the
\* headings rendered here are such lines
wordwrap(limit, s) == s

\* the margin writer: each line is preceded by the indent and margin of the
\* rules, written as spaces in the parent's style
MarginWrite(bs, hrules, s) ==
    LET n == (IF hrules.Indent # Nil THEN Deref(hrules.Indent) ELSE 0)
             + (IF hrules.Margin # Nil THEN Deref(hrules.Margin) ELSE 0)
    IN  IF Len(s) = 0 THEN <<>>
        ELSE Repeat(renderText(Parent(bs).Style.StylePrimitive, <<32>>), n) \o s

\* heading.go:30-45: the rules of the heading's level
HeadingRules(e, st) ==
    IF e.Level \in 1..6 THEN cascadeStyles(st.Heading, st.H[e.Level]) ELSE st.Heading

\* heading.go:28-60: the block stack and the output after Render
HeadingRender(e, bs, st) ==
    LET hrules == HeadingRules(e, st)
        sep == IF ~e.First
               THEN renderText(Current(bs).Style.StylePrimitive, <<10>>) ELSE <<>>
        be == [Block |-> EmptyString, Style |-> cascadeStyle(Current(bs).Style, hrules, FALSE)]
        pushed == Push(bs, be)
        out == sep \o renderText(Parent(pushed).Style.StylePrimitive,
                                 hrules.StylePrimitive.BlockPrefix)
        block == renderText(be.Style.StylePrimitive, hrules.StylePrimitive.Prefix)
    IN  [bs |-> [pushed EXCEPT ![Len(pushed)].Block = block], out |-> out]

\* io.Writer.Write of s to a writer that fails or not: what reaches the output
WriteTo(fails, s) == IF fails THEN <<>> ELSE s

\* heading.go:68-108: the scaled branch, [bs, out, err]
ScaledFinish(bs, extraRows, fails) ==
    LET hrules == Current(bs).Style
        fullText == StripANSI(Current(bs).Block) \o hrules.StylePrimitive.Suffix
        marker == Marker(buildOSC66Output(hrules.StylePrimitive, fullText))
    IN  [bs |-> Pop(bs),
         out |-> Concat(<<WriteTo(fails, marker),
                          WriteTo(fails, renderText(Parent(bs).Style.StylePrimitive,
                                                    hrules.StylePrimitive.BlockSuffix)),
                          WriteTo(fails, Repeat(<<10>>, extraRows))>>),
         err |-> FALSE]

\* heading.go:110-133: the standard branch, [bs, out, err]; a failed write
\* of the margin writer returns before the entry is reset and popped
StandardFinish(bs, fails) ==
    LET hrules == Current(bs).Style
        flow == wordwrap(Width(bs), Current(bs).Block)
    IN  IF fails /\ Len(MarginWrite(bs, hrules, flow)) > 0
        THEN [bs |-> bs, out |-> <<>>, err |-> TRUE]
        ELSE [bs |-> Pop(bs),
              out |-> Concat(<<WriteTo(fails, MarginWrite(bs, hrules, flow)),
                               WriteTo(fails, renderText(hrules.StylePrimitive,
                                                         hrules.StylePrimitive.Suffix)),
                               WriteTo(fails, renderText(Parent(bs).Style.StylePrimitive,
                                                         hrules.StylePrimitive.BlockSuffix))>>),
              err |-> FALSE]

\* heading.go:63-133: HeadingElement.Finish, [bs, out, err]
HeadingFinish(bs, enabled, fails) ==
    IF enabled /\ hasKittyTextSizing(Current(bs).Style.StylePrimitive)
    THEN ScaledFinish(bs, GetKittyScaleRows(Current(bs).Style.StylePrimitive), fails)
    ELSE StandardFinish(bs, fails)

\* the scopes a heading is rendered in: the document, and a block in it
\* that has a color and a block suffix
HeadingStacks ==
    {<<[Block |-> EmptyString, Style |-> ZeroStyleBlock]>>,
     <<[Block |-> EmptyString, Style |-> ZeroStyleBlock],
       [Block |-> EmptyString,
        Style |-> [ZeroStyleBlock EXCEPT
                      !.StylePrimitive = [ZeroStylePrimitive EXCEPT
                          !.Color = Ptr(<<50>>), !.BlockSuffix = <<33>>]]]>>}

\* Styles.Heading: plain, and bold with the block suffix "\n"
HeadingBases ==
    {ZeroStyleBlock,
     [ZeroStyleBlock EXCEPT
         !.StylePrimitive = [ZeroStylePrimitive EXCEPT
             !.Bold = Ptr(TRUE), !.BlockSuffix = <<10>>]]}

\* the style of the heading's level: with or without a scale, a suffix " "
\* and a color, and those with a width, a vertical alignment or a
\* horizontal alignment alone
LevelStyles ==
    {[ZeroStyleBlock EXCEPT
         !.StylePrimitive = [ZeroStylePrimitive EXCEPT
             !.KittyScale = sc, !.Suffix = sf, !.Color = c]] :
        sc \in {Nil, Ptr(1), Ptr(2), Ptr(3), Ptr(ScaleLimit), Ptr(ScaleLimit + 1)},
        sf \in {EmptyString, <<32>>}, c \in {Nil, Ptr(<<49>>)}}
    \cup {[ZeroStyleBlock EXCEPT
              !.StylePrimitive = [ZeroStylePrimitive EXCEPT !.KittyWidth = Ptr(2)]],
          [ZeroStyleBlock EXCEPT
              !.StylePrimitive = [ZeroStylePrimitive EXCEPT !.KittyVAlign = Ptr(2)]],
          [ZeroStyleBlock EXCEPT
              !.StylePrimitive = [ZeroStylePrimitive EXCEPT !.KittyHAlign = Ptr(1)]]}

\* the style of the other levels: scale 5 and the suffix "?"
OtherLevel ==
    [ZeroStyleBlock EXCEPT
        !.StylePrimitive = [ZeroStylePrimitive EXCEPT
            !.KittyScale = Ptr(5), !.Suffix = <<63>>]]

\* the inline children: the text "Hi", a bold "B", and the link token of
\* link.go:75 for the URL "u" and the text "L"
HeadingChildren ==
    {[Token |-> <<72, 105>>, Prefix |-> EmptyString, Style |-> ZeroStylePrimitive],
     [Token |-> <<66>>, Prefix |-> EmptyString,
      Style |-> [ZeroStylePrimitive EXCEPT !.Bold = Ptr(TRUE)]],
     [Token |-> <<27, 93, 56, 59, 59, 117, 27, 92, 76, 27, 93, 56, 59, 59, 27, 92>>,
      Prefix |-> EmptyString, Style |-> ZeroStylePrimitive]}

InitHeading ==
    /\ pc = "heading"
    /\ blockStack \in HeadingStacks
    /\ w = EmptyString
    /\ heading \in [Level : {1, 2}, First : BOOLEAN]
    /\ \E b \in HeadingBases, s \in LevelStyles :
          styles = [Heading |-> b,
                    H |-> [l \in 1..6 |-> IF l = heading.Level THEN s ELSE OtherLevel]]
    /\ kittyTextSizingEnabled \in BOOLEAN
    /\ writerFails \in BOOLEAN
    /\ entryDepth = 0 /\ children = 0 /\ finishErr = FALSE
    /\ IdleButHeading

\* the heading node is entered: HeadingElement.Render
RenderHeading ==
    /\ pc = "heading"
    /\ LET r == HeadingRender(heading, blockStack, styles)
       IN  /\ blockStack' = r.bs
           /\ w' = w \o WriteTo(writerFails, r.out)
    /\ entryDepth' = Len(blockStack)
    /\ pc' = "children"
    /\ UNCHANGED <<heading, styles, kittyTextSizingEnabled, children, writerFails, finishErr>>
    /\ UNCHANGED othersOfHeading

\* an inline child of the heading is rendered into the heading's buffer
RenderChild(e) ==
    /\ pc = "children"
    /\ children < MaxChildren
    /\ blockStack' = [blockStack EXCEPT
                         ![Len(blockStack)].Block = @ \o BaseElementRender(e, blockStack).out]
    /\ children' = children + 1
    /\ UNCHANGED <<pc, w, heading, styles, kittyTextSizingEnabled, entryDepth,
                   writerFails, finishErr>>
    /\ UNCHANGED othersOfHeading

\* the heading node is left: HeadingElement.Finish
FinishHeading ==
    /\ pc = "children"
    /\ LET r == HeadingFinish(blockStack, kittyTextSizingEnabled, writerFails)
       IN  /\ blockStack' = r.bs
           /\ w' = w \o r.out
           /\ finishErr' = r.err
    /\ pc' = "finished"
    /\ UNCHANGED <<heading, styles, kittyTextSizingEnabled, entryDepth, children, writerFails>>
    /\ UNCHANGED othersOfHeading

NextHeading ==
    \/ RenderHeading
    \/ \E e \in HeadingChildren : RenderChild(e)
    \/ FinishHeading

SpecHeading == InitHeading /\ [][NextHeading]_vars

(***************************************************************************)
(* Properties of heading rendering.                                        *)
(***************************************************************************)
\* the scale of the rules r when it is in 2..7, else 0
ScaleIn2To7(r) ==
    IF r.KittyScale # Nil /\ Deref(r.KittyScale) \in 2..ScaleLimit
    THEN Deref(r.KittyScale) ELSE 0

\* C9: with the scaling flag on, a working output and a resolved scale s in
\* 2..7, Finish appends to the output exactly one marker, whose payload
\* holds the OSC 66 sequence with s=<s> and the buffered text stripped of
\* SGR sequences followed by the suffix, then the block suffix in the
\* parent's style, then exactly s-1 newlines, and pops the entry that
\* Render pushed, so that the stack is as deep as before the heading.
C9_ScaledFinish ==
    [][(/\ pc = "children" /\ pc' = "finished"
        /\ kittyTextSizingEnabled /\ ~writerFails
        /\ ScaleIn2To7(Current(blockStack).Style.StylePrimitive) # 0) =>
          LET st == Current(blockStack).Style.StylePrimitive
              s == ScaleIn2To7(st)
              out == From(w', Len(w))
              j == Index(out, markerSuffix)
              b64 == SubSeq(out, Len(markerPrefix) + 1, j)
              rest == From(out, j + Len(markerSuffix))
              d == base64Decode(b64)
          IN  /\ Upto(w', Len(w)) = w
              /\ Index(out, markerPrefix) = 0 /\ j >= Len(markerPrefix)
              /\ ~d.err
              /\ Index(d.bytes, <<27, 93, 54, 54, 59, 115, 61>> \o FormatUint(s)) >= 0
              /\ Index(d.bytes, Concat(<< <<59>>, StripANSI(Current(blockStack).Block),
                                          st.Suffix, <<7>> >>)) >= 0
              /\ Index(rest, markerPrefix) = -1
              /\ rest = renderText(Parent(blockStack).Style.StylePrimitive, st.BlockSuffix)
                          \o [i \in 1..(s - 1) |-> 10]
              /\ Len(blockStack') = entryDepth
              /\ blockStack' = Pop(blockStack)]_vars

\* a second-level heading of scale 2 with two children was finished: the
\* output ends with the closing sentinel and one newline
C9_Witness ==
    /\ pc = "finished" /\ kittyTextSizingEnabled /\ ~writerFails
    /\ heading.Level = 2 /\ children = 2
    /\ styles.Heading = ZeroStyleBlock
    /\ styles.H[2].StylePrimitive.KittyScale = Ptr(2)
    /\ Len(blockStack) = entryDepth
    /\ Len(w) > Len(markerSuffix)
    /\ SubSeq(w, Len(w) - Len(markerSuffix), Len(w)) = markerSuffix \o <<10>>

\* C14: with a working output, Finish writes a marker, the mark of the
\* scaled branch, exactly when the scaling flag is on and the resolved style
\* sets at least one of scale, width, numerator, denominator, vertical
\* alignment and horizontal alignment; otherwise it writes the buffered
\* content as it is word-wrapped.
C14_ScaledBranchCondition ==
    [][(pc = "children" /\ pc' = "finished" /\ ~writerFails) =>
          LET st == Current(blockStack).Style.StylePrimitive
              out == From(w', Len(w))
              anyParameter == \E f \in KittyFields : st[f] # Nil
          IN  (Index(out, markerPrefix) = 0) <=> (kittyTextSizingEnabled /\ anyParameter)]_vars

\* C19: in the OSC 66 sequence that the marker of a finished heading
\* holds, the text between the metadata and the terminating BEL has no ESC
\* byte; what stands before the introducer is empty or one SGR sequence, and
\* what stands after the BEL is empty or the reset.
C19_PlainPayload ==
    (pc = "finished" /\ Index(w, markerPrefix) >= 0) =>
        LET i == Index(w, markerPrefix)
            j == Index(w, markerSuffix)
            d == base64Decode(SubSeq(w, i + Len(markerPrefix) + 1, j))
            intro == <<27, 93, 54, 54, 59>>
            k == Index(d.bytes, intro)
            body == From(d.bytes, k + Len(intro))
            text == From(body, Index(body, <<59>>) + 1)
            bel == Index(text, <<7>>)
        IN  (~d.err /\ k >= 0) =>
                /\ bel >= 0
                /\ \A n \in 1..bel : text[n] # 27
                /\ StripANSI(Upto(d.bytes, k)) = <<>>
                /\ From(text, bel + 1) \in {<<>>, reset}

\* the value of the s key in the metadata of the OSC 66 sequence that the
\* bytes d hold; 0 when they hold no OSC 66 sequence or no s key
EncodedScale(d) ==
    LET intro == <<27, 93, 54, 54, 59>>
        k == Index(d, intro)
        body == From(d, k + Len(intro))
        pm == ParseMeta(Upto(body, Index(body, <<59>>)))
    IN  IF k < 0 \/ ~(\E i \in 1..Len(pm) : pm[i][1] = 115) THEN 0
        ELSE pm[CHOOSE i \in 1..Len(pm) : pm[i][1] = 115][2]

\* C21: whenever Finish takes the scaled branch with a working output, what
\* it writes after the marker is the block suffix in the parent's style
\* followed by exactly s-1 newlines, s being the value of the s key in the
\* metadata the marker encodes, and by no newline when the encoded output
\* has no s key.
C21_RowsMatchEncodedScale ==
    [][(/\ pc = "children" /\ pc' = "finished"
        /\ kittyTextSizingEnabled /\ ~writerFails
        /\ hasKittyTextSizing(Current(blockStack).Style.StylePrimitive)) =>
          LET st == Current(blockStack).Style.StylePrimitive
              out == From(w', Len(w))
              j == Index(out, markerSuffix)
              d == base64Decode(SubSeq(out, Len(markerPrefix) + 1, j))
              rest == From(out, j + Len(markerSuffix))
              s == EncodedScale(d.bytes)
          IN  /\ Index(out, markerPrefix) = 0 /\ j >= Len(markerPrefix) /\ ~d.err
              /\ rest = renderText(Parent(blockStack).Style.StylePrimitive, st.BlockSuffix)
                          \o [i \in 1..(IF s = 0 THEN 0 ELSE s - 1) |-> 10]]_vars

\* the same for the scales the wire format carries, 2 to 7, and for the
\* styles without a scale above 1
C21_RowsMatchInRange ==
    [][(/\ pc = "children" /\ pc' = "finished"
        /\ kittyTextSizingEnabled /\ ~writerFails
        /\ hasKittyTextSizing(Current(blockStack).Style.StylePrimitive)
        /\ GetKittyScaleRows(Current(blockStack).Style.StylePrimitive) < ScaleLimit) =>
          LET st == Current(blockStack).Style.StylePrimitive
              out == From(w', Len(w))
              j == Index(out, markerSuffix)
              d == base64Decode(SubSeq(out, Len(markerPrefix) + 1, j))
              rest == From(out, j + Len(markerSuffix))
              s == EncodedScale(d.bytes)
          IN  rest = renderText(Parent(blockStack).Style.StylePrimitive, st.BlockSuffix)
                          \o [i \in 1..(IF s = 0 THEN 0 ELSE s - 1) |-> 10]]_vars

\* C10: after Render and Finish, whatever way Finish returned, the entry
\* that Render pushed has been popped: the block stack is as deep as it was
\* before the heading, and the root entry is still there.
C10_FinishPops ==
    pc = "finished" => Len(blockStack) = entryDepth /\ Len(blockStack) >= 1

(***************************************************************************)
(* ansi/baseelement.go: rendering one BaseElement in a scope.              *)
(***************************************************************************)
\* heading.go:51-55: a block element enters its scope with the style that
\* cascades its rules onto the current scope's
Scope(bs, srules) ==
    Push(bs, [Block |-> EmptyString, Style |-> cascadeStyle(Current(bs).Style, srules, FALSE)])

\* the rules of a scope that sets a color and the prefix color "5", and of
\* one that sets neither
AccentRules ==
    [ZeroStyleBlock EXCEPT
        !.StylePrimitive = [ZeroStylePrimitive EXCEPT
            !.Color = Ptr(<<50>>), !.PrefixColor = Ptr(<<53>>)]]
PlainRules == ZeroStyleBlock

\* the scopes an element is rendered in: the document; a scope with an
\* accent; a plain scope inside a scope with an accent
BaseStacks ==
    LET root == <<[Block |-> EmptyString, Style |-> ZeroStyleBlock]>>
    IN  {root, Scope(root, AccentRules), Scope(Scope(root, AccentRules), PlainRules)}

\* the framing of an element's style: none, all four, the two prefixes,
\* the two suffixes; "B", "X", "s", "x"
BaseFramings ==
    {[BlockPrefix |-> bp, BlockSuffix |-> bx, Prefix |-> sp, Suffix |-> sx] :
        bp \in {EmptyString, <<66>>}, bx \in {EmptyString, <<88>>},
        sp \in {EmptyString, <<115>>}, sx \in {EmptyString, <<120>>}}

\* the formats: none, "<{{.text}}>", and the malformed "{{"
BaseFormats == {EmptyString, <<60>> \o TextAction \o <<62>>, <<123, 123>>}

\* the tokens "aB c" and "\*t"
BaseTokens == {<<97, 66, 32, 99>>, <<92, 42, 116>>}

\* a case flag: unset, true
CaseFlags == {Nil, Ptr(TRUE)}

BaseStyles ==
    {[ZeroStylePrimitive EXCEPT
         !.BlockPrefix = f.BlockPrefix, !.BlockSuffix = f.BlockSuffix,
         !.Prefix = f.Prefix, !.Suffix = f.Suffix, !.Format = fmt,
         !.Upper = up, !.Lower = lo, !.Title = ti, !.Color = c] :
        f \in BaseFramings, fmt \in BaseFormats,
        up \in CaseFlags, lo \in CaseFlags, ti \in CaseFlags,
        c \in {Nil, Ptr(<<49>>)}}

InitBase ==
    /\ pc = "base"
    /\ blockStack \in BaseStacks
    /\ w = EmptyString
    /\ element \in [Token : BaseTokens, Prefix : {EmptyString, <<112>>}, Style : BaseStyles]
    /\ baseErr = FALSE
    /\ IdleButBase

\* baseelement.go:94-99: BaseElement.Render writes to the output
RenderBase ==
    /\ pc = "base"
    /\ LET r == BaseElementRender(element, blockStack)
       IN  /\ w' = w \o r.out
           /\ baseErr' = r.err
    /\ pc' = "baseDone"
    /\ UNCHANGED <<blockStack, element>>
    /\ UNCHANGED othersOfBase

NextBase == RenderBase

SpecBase == InitBase /\ [][NextBase]_vars

(***************************************************************************)
(* Properties of BaseElement rendering.                                    *)
(***************************************************************************)
\* the token as the formats of BaseFormats write it: [err, s]
FormattedToken(e) ==
    IF e.Style.Format = EmptyString THEN [err |-> FALSE, s |-> Unescape(e.Token)]
    ELSE IF e.Style.Format = <<123, 123>> THEN [err |-> TRUE, s |-> <<>>]
    ELSE [err |-> FALSE, s |-> <<60>> \o Unescape(e.Token) \o <<62>>]

NoCaseFlags(r) == r.Upper = Nil /\ r.Lower = Nil /\ r.Title = Nil

\* C13: the output, its SGR sequences and its case set aside, is the
\* element prefix, the block prefix, the style prefix, the formatted and
\* unescaped token, the style suffix and the block suffix in this order; when
\* the format fails the error is returned and the token alone is missing.
C13_RenderOrder ==
    pc = "baseDone" =>
        LET t == FormattedToken(element)
            expected == Concat(<<element.Prefix, element.Style.BlockPrefix,
                                 element.Style.Prefix, t.s, element.Style.Suffix,
                                 element.Style.BlockSuffix>>)
        IN  /\ baseErr = t.err
            /\ ToLower(StripANSI(w)) = ToLower(expected)
            /\ (NoCaseFlags(element.Style) /\ NoCaseFlags(Current(blockStack).Style.StylePrimitive))
                   => StripANSI(w) = expected

\* an element with every prefix and suffix whose format failed was rendered
\* in a scope with an accent: "pBsxX" came out
C13_Witness ==
    /\ pc = "baseDone" /\ baseErr
    /\ Len(blockStack) = 2
    /\ element.Style.Color # Nil /\ NoCaseFlags(element.Style)
    /\ StripANSI(w) = <<112, 66, 115, 120, 88>>

\* C15: the text is written upper-cased if upper is true, otherwise
\* lower-cased if lower is true, otherwise title-cased if title is true,
\* otherwise as it is; shown on the token "aB c" of an element without
\* prefix, framing and format.
C15_CasePrecedence ==
    (/\ pc = "baseDone"
     /\ element.Token = <<97, 66, 32, 99>> /\ element.Prefix = EmptyString
     /\ element.Style.Format = EmptyString
     /\ \A f \in FramingFields : element.Style[f] = EmptyString) =>
        LET r == element.Style
            plain == StripANSI(w)
        IN  IF r.Upper = Ptr(TRUE) THEN plain = <<65, 66, 32, 67>>
            ELSE IF r.Lower = Ptr(TRUE) THEN plain = <<97, 98, 32, 99>>
            ELSE IF r.Title = Ptr(TRUE) THEN plain = <<65, 98, 32, 67>>
            ELSE plain = <<97, 66, 32, 99>>

(***************************************************************************)
(* Concurrent render calls: ansi/link.go and the global flag of            *)
(* ansi/kitty_text_sizing.go.  Each render call has its own context and    *)
(* output; the statements of different calls interleave.                   *)
(***************************************************************************)
Renders == {1, 2}

InitLinks ==
    /\ pc = "concurrent"
    /\ NumLinks = 0
    /\ kittyTextSizingEnabled \in BOOLEAN
    /\ kittyTextSizingMutex = [writer |-> FALSE, readers |-> 0]
    /\ render \in [Renders -> [pc : {"start"}, LinkNumbers : BOOLEAN,
                               links : 1..MaxLinks, seen : {FALSE}, tmp : {0},
                               tokens : {<<>>}]]
    /\ setter \in [pc : {"start"}, enabled : BOOLEAN]
    /\ IdleButLinks

\* kitty_text_sizing.go:35: IsKittyTextSizingEnabled takes the read lock
FlagRLock(r) ==
    /\ render[r].pc = "start"
    /\ ~kittyTextSizingMutex.writer
    /\ kittyTextSizingMutex' = [kittyTextSizingMutex EXCEPT !.readers = @ + 1]
    /\ render' = [render EXCEPT ![r].pc = "rlocked"]
    /\ UNCHANGED <<pc, NumLinks, kittyTextSizingEnabled, setter>>
    /\ UNCHANGED othersOfLinks

\* kitty_text_sizing.go:36-37: it reads the flag and releases the lock
FlagRead(r) ==
    /\ render[r].pc = "rlocked"
    /\ kittyTextSizingMutex' = [kittyTextSizingMutex EXCEPT !.readers = @ - 1]
    /\ render' = [render EXCEPT ![r].pc = "link", ![r].seen = kittyTextSizingEnabled]
    /\ UNCHANGED <<pc, NumLinks, kittyTextSizingEnabled, setter>>
    /\ UNCHANGED othersOfLinks

\* link.go:23: a link is rendered without link numbers: the token is empty
LinkUnnumbered(r) ==
    /\ render[r].pc = "link" /\ render[r].links > 0
    /\ ~render[r].LinkNumbers
    /\ render' = [render EXCEPT ![r].links = @ - 1,
                                ![r].tokens = Append(@, EmptyString)]
    /\ UNCHANGED <<pc, NumLinks, kittyTextSizingEnabled, kittyTextSizingMutex, setter>>
    /\ UNCHANGED othersOfLinks

\* link.go:25: NumLinks++ reads the counter ...
LinkLoad(r) ==
    /\ render[r].pc = "link" /\ render[r].links > 0
    /\ render[r].LinkNumbers
    /\ render' = [render EXCEPT ![r].pc = "store", ![r].tmp = NumLinks]
    /\ UNCHANGED <<pc, NumLinks, kittyTextSizingEnabled, kittyTextSizingMutex, setter>>
    /\ UNCHANGED othersOfLinks

\* link.go:25: ... and writes it back, one larger
LinkStore(r) ==
    /\ render[r].pc = "store"
    /\ NumLinks' = render[r].tmp + 1
    /\ render' = [render EXCEPT ![r].pc = "format"]
    /\ UNCHANGED <<pc, kittyTextSizingEnabled, kittyTextSizingMutex, setter>>
    /\ UNCHANGED othersOfLinks

\* link.go:26: the token is "[" NumLinks "]", the counter read again
LinkFormat(r) ==
    /\ render[r].pc = "format"
    /\ render' = [render EXCEPT
                     ![r].pc = "link", ![r].links = @ - 1,
                     ![r].tokens = Append(@, <<91>> \o FormatUint(NumLinks) \o <<93>>)]
    /\ UNCHANGED <<pc, NumLinks, kittyTextSizingEnabled, kittyTextSizingMutex, setter>>
    /\ UNCHANGED othersOfLinks

\* the render call has rendered its links
RenderDone(r) ==
    /\ render[r].pc = "link" /\ render[r].links = 0
    /\ render' = [render EXCEPT ![r].pc = "done"]
    /\ UNCHANGED <<pc, NumLinks, kittyTextSizingEnabled, kittyTextSizingMutex, setter>>
    /\ UNCHANGED othersOfLinks

\* kitty_text_sizing.go:28: SetKittyTextSizingEnabled takes the write lock
SetLock ==
    /\ setter.pc = "start"
    /\ ~kittyTextSizingMutex.writer /\ kittyTextSizingMutex.readers = 0
    /\ kittyTextSizingMutex' = [kittyTextSizingMutex EXCEPT !.writer = TRUE]
    /\ setter' = [setter EXCEPT !.pc = "locked"]
    /\ UNCHANGED <<pc, NumLinks, kittyTextSizingEnabled, render>>
    /\ UNCHANGED othersOfLinks

\* kitty_text_sizing.go:29-30: it writes the flag and releases the lock
SetWrite ==
    /\ setter.pc = "locked"
    /\ kittyTextSizingEnabled' = setter.enabled
    /\ kittyTextSizingMutex' = [kittyTextSizingMutex EXCEPT !.writer = FALSE]
    /\ setter' = [setter EXCEPT !.pc = "done"]
    /\ UNCHANGED <<pc, NumLinks, render>>
    /\ UNCHANGED othersOfLinks

NextLinks ==
    \/ \E r \in Renders : FlagRLock(r)
    \/ \E r \in Renders : FlagRead(r)
    \/ \E r \in Renders : LinkUnnumbered(r)
    \/ \E r \in Renders : LinkLoad(r)
    \/ \E r \in Renders : LinkStore(r)
    \/ \E r \in Renders : LinkFormat(r)
    \/ \E r \in Renders : RenderDone(r)
    \/ SetLock
    \/ SetWrite

SpecLinks == InitLinks /\ [][NextLinks]_vars

(***************************************************************************)
(* Properties of concurrent render calls.                                  *)
(***************************************************************************)
\* the link tokens of a render call that numbers n links and runs alone:
\* "[1]", "[2]", ...
TokensAlone(n) == [i \in 1..n |-> <<91>> \o FormatUint(i) \o <<93>>]

\* C18: the flag is written only while no reader holds its lock, and the
\* output of a render call does not depend on the other call: a call that
\* numbers its links writes the tokens it writes when it runs alone.
C18_RendersIndependent ==
    /\ kittyTextSizingMutex.writer => kittyTextSizingMutex.readers = 0
    /\ \A r \in DOMAIN render :
          (render[r].pc = "done" /\ render[r].LinkNumbers) =>
              render[r].tokens = TokensAlone(Len(render[r].tokens))

\* C20: the element's own prefix is written in the prefix color of the
\* enclosing scope, which a scope that sets none inherits from its nearest
\* ancestor that sets one, and never in the element's own color; with no
\* prefix color in any scope the prefix of an element in the document scope
\* is written as it is.
C20_PrefixColorInherited ==
    (pc = "baseDone" /\ element.Prefix # EmptyString) =>
        LET setting == {i \in 1..Len(blockStack) :
                           blockStack[i].Style.StylePrimitive.PrefixColor # Nil}
            nearest == CHOOSE i \in setting : \A k \in setting : k <= i
        IN  IF setting # {}
            THEN SubSeq(w, 1, 4)
                    = <<27, 91, 51>>
                        \o Deref(blockStack[nearest].Style.StylePrimitive.PrefixColor)
            ELSE SubSeq(w, 1, Len(element.Prefix)) = element.Prefix

(***************************************************************************)
(* Successive calls of the probe on the same standard input:               *)
(* ansi/kitty_text_sizing.go, readCPR and DetectAndEnableKittyTextSizing.  *)
(* A readCPR that times out leaves its goroutine blocked in Read; which of *)
(* the readers blocked on standard input receives a report is not          *)
(* determined by the program.                                              *)
(***************************************************************************)
\* the columns a terminal reports
ReportedCols == {5, 7, 9}

InitCalls ==
    /\ pc = "calls"
    /\ calls = 0 /\ answering = FALSE /\ outstanding = FALSE
    /\ stdin = <<>> /\ abandoned = 0
    /\ cprs = <<>> /\ answers = <<>> /\ taken = 0 /\ timedOut = FALSE
    /\ detected = [cap |-> "KittyTextSizingNone", err |-> "nil"]
    /\ kittyTextSizingEnabled = FALSE
    /\ IdleButCalls

\* kitty_text_sizing.go:366-367 and 271-320: a call starts on a terminal
\* that answers or stays silent, and sends the first request
CallStart ==
    /\ pc \in {"calls", "returned"}
    /\ calls < MaxCalls
    /\ calls' = calls + 1
    /\ answering' \in BOOLEAN
    /\ outstanding' = TRUE
    /\ cprs' = <<>> /\ answers' = <<>> /\ taken' = 0
    /\ timedOut' = (timedOut \/ detected.err = "timeout waiting for CPR response")
    /\ pc' = "reading"
    /\ UNCHANGED <<stdin, abandoned, detected, kittyTextSizingEnabled>>
    /\ UNCHANGED othersOfCalls

\* the terminal answers the outstanding request with a report
TerminalAnswers ==
    /\ pc = "reading" /\ answering /\ outstanding
    /\ \E c \in ReportedCols :
          /\ stdin' = Append(stdin, c)
          /\ answers' = Append(answers, c)
    /\ outstanding' = FALSE
    /\ UNCHANGED <<pc, calls, answering, abandoned, cprs, taken, timedOut, detected,
                   kittyTextSizingEnabled>>
    /\ UNCHANGED othersOfCalls

\* kitty_text_sizing.go:291-309 and 321-335: the goroutine of the current
\* readCPR reads the report, and the next request is sent
OwnRead ==
    /\ pc = "reading" /\ stdin # <<>> /\ Len(cprs) < 2
    /\ cprs' = Append(cprs, Head(stdin))
    /\ stdin' = Tail(stdin)
    /\ outstanding' = TRUE
    /\ UNCHANGED <<pc, calls, answering, abandoned, answers, taken, timedOut, detected,
                   kittyTextSizingEnabled>>
    /\ UNCHANGED othersOfCalls

\* kitty_text_sizing.go:335-360 and 367-374: the goroutine of the third
\* readCPR reads the report, the columns are classified, and full support
\* enables the flag
OwnReadLast ==
    /\ pc = "reading" /\ stdin # <<>> /\ Len(cprs) = 2
    /\ cprs' = Append(cprs, Head(stdin))
    /\ stdin' = Tail(stdin)
    /\ detected' = [cap |-> Classify(cprs[1], cprs[2], Head(stdin)), err |-> "nil"]
    /\ kittyTextSizingEnabled' =
          (kittyTextSizingEnabled
             \/ Classify(cprs[1], cprs[2], Head(stdin)) = "KittyTextSizingFull")
    /\ pc' = "returned"
    /\ UNCHANGED <<calls, answering, outstanding, abandoned, answers, taken, timedOut>>
    /\ UNCHANGED othersOfCalls

\* kitty_text_sizing.go:291-309: the goroutine of an earlier readCPR, still
\* blocked in reader.Read, reads the report, finds a match and ends
AbandonedRead ==
    /\ abandoned > 0 /\ stdin # <<>>
    /\ stdin' = Tail(stdin)
    /\ abandoned' = abandoned - 1
    /\ taken' = taken + 1
    /\ UNCHANGED <<pc, calls, answering, outstanding, cprs, answers, timedOut, detected,
                   kittyTextSizingEnabled>>
    /\ UNCHANGED othersOfCalls

\* kitty_text_sizing.go:311-316, 322-324 and 367-370: no report reaches the
\* current readCPR before its timer fires; the call returns the error and
\* None, and the goroutine stays blocked in Read
CallTimeout ==
    /\ pc = "reading" /\ stdin = <<>>
    /\ ~answering \/ ~outstanding
    /\ abandoned' = abandoned + 1
    /\ detected' = [cap |-> "KittyTextSizingNone",
                    err |-> "timeout waiting for CPR response"]
    /\ pc' = "returned"
    /\ UNCHANGED <<calls, answering, outstanding, stdin, cprs, answers, taken, timedOut,
                   kittyTextSizingEnabled>>
    /\ UNCHANGED othersOfCalls

NextCalls ==
    \/ CallStart \/ TerminalAnswers \/ OwnRead \/ OwnReadLast
    \/ AbandonedRead \/ CallTimeout

SpecCalls == InitCalls /\ [][NextCalls]_vars

(***************************************************************************)
(* Properties of successive calls.                                         *)
(***************************************************************************)
\* C22: a call that follows a call ended by a timeout, on a terminal that
\* answers each of its three requests, has returned: its own readers received
\* every report, no abandoned reader consumed one, and it returned the
\* classification of the three reported columns and no error.
C22_LaterCallIndependent ==
    (pc = "returned" /\ timedOut /\ answering) =>
        /\ taken = 0
        /\ cprs = answers /\ Len(cprs) = 3
        /\ detected = [cap |-> Classify(answers[1], answers[2], answers[3]),
                       err |-> "nil"]

\* a call on an answering terminal that no timed-out call preceded returns
\* the classification of the three reported columns
FirstCallClassifies ==
    (pc = "returned" /\ ~timedOut /\ answering) =>
        /\ taken = 0
        /\ cprs = answers /\ Len(cprs) = 3
        /\ detected = [cap |-> Classify(answers[1], answers[2], answers[3]),
                       err |-> "nil"]

====
